---- MODULE Spec2Model ----
(***************************************************************************)
(* Model of the douyin-down server (server.ts): the short-link resolver,   *)
(* the five extraction strategies of POST /api/parse, the domain           *)
(* normalizer and the recursive structure search.                          *)
(*                                                                         *)
(* Text is modelled at character level: a JavaScript string is a TLA+      *)
(* string, read with Len, SubSeq and \o.  A JavaScript value is a tagged   *)
(* record (Str, Num, Undef, Null, Obj, Arr).  Every network response is an *)
(* input chosen by the environment from a small set.                       *)
(***************************************************************************)
EXTENDS Integers, Sequences, FiniteSets, TLC

(***************************************************************************)
(* Character-level string helpers (String.prototype methods and the        *)
(* regular expressions the code uses).                                     *)
(***************************************************************************)
Ch(s, i) == SubSeq(s, i, i)

Digits == {"0", "1", "2", "3", "4", "5", "6", "7", "8", "9"}

LowerLetters == {"a", "b", "c", "d", "e", "f", "g", "h", "i", "j", "k", "l", "m",
                 "n", "o", "p", "q", "r", "s", "t", "u", "v", "w", "x", "y", "z"}

WhiteSpace == {" ", "\t", "\n"}

\* s.startsWith(p)
StartsWith(s, p) == Len(s) >= Len(p) /\ SubSeq(s, 1, Len(p)) = p

\* the literal p occurs in s at position i
OccursAt(s, p, i) == i >= 1 /\ i + Len(p) - 1 <= Len(s) /\ SubSeq(s, i, i + Len(p) - 1) = p

\* positions at which the literal p occurs in s
Occurrences(s, p) == {i \in 1..Len(s) : OccursAt(s, p, i)}

\* s.includes(p)
Includes(s, p) == Occurrences(s, p) # {}

Min(S) == CHOOSE x \in S : \A y \in S : x <= y

\* s.replace(p, r) with a string pattern: only the first occurrence is replaced
ReplaceFirst(s, p, r) ==
    IF ~Includes(s, p) THEN s
    ELSE LET i == Min(Occurrences(s, p))
         IN  SubSeq(s, 1, i - 1) \o r \o SubSeq(s, i + Len(p), Len(s))

\* end of the longest run of characters of the class C that starts at position i
\* (i - 1 when the character at i is not in C): the greedy C* of a regular expression
RunEnd(s, C, i) ==
    LET stops == {j \in i..Len(s) : Ch(s, j) \notin C}
    IN  IF stops = {} THEN Len(s) ELSE Min(stops) - 1

\* the end of the match of a literal pattern p that starts at position i, or 0
LitEnd(s, p, i) == IF OccursAt(s, p, i) THEN i + Len(p) - 1 ELSE 0

\* /v\d+-[a-z]+\.douyinvod\.com/ : the end of the match that starts at i, or 0.
\* Neither \d+ nor [a-z]+ can give a character back to what follows it, so the
\* greedy runs decide the match.
VodEnd(s, i) ==
    IF ~OccursAt(s, "v", i) THEN 0
    ELSE LET d == RunEnd(s, Digits, i + 1)
         IN  IF d < i + 1 \/ ~OccursAt(s, "-", d + 1) THEN 0
             ELSE LET l == RunEnd(s, LowerLetters, d + 2)
                  IN  IF l < d + 2 THEN 0 ELSE LitEnd(s, ".douyinvod.com", l + 1)

\* the regular expressions of the code that are used with the g flag: the end of
\* the match of pattern pat that starts at position i of s, or 0
MatchEnd(pat, s, i) ==
    CASE pat = "aweme.snssdk.com" -> LitEnd(s, "aweme.snssdk.com", i)
      [] pat = "api-h2.amemv.com" -> LitEnd(s, "api-h2.amemv.com", i)
      [] pat = "api.amemv.com" -> LitEnd(s, "api.amemv.com", i)
      [] pat = "v\\d+-[a-z]+.douyinvod.com" -> VodEnd(s, i)
      [] pat = "\\u002F" -> LitEnd(s, "\\u002F", i)
      [] pat = "\\/" -> LitEnd(s, "\\/", i)

\* s.replace(/pat/g, r): matches are taken left to right and do not overlap; the
\* replacement text is not scanned again
RECURSIVE ReplaceAllFrom(_, _, _, _)
ReplaceAllFrom(s, pat, r, i) ==
    LET starts == {j \in i..Len(s) : MatchEnd(pat, s, j) > 0}
    IN  IF starts = {} THEN SubSeq(s, i, Len(s))
        ELSE LET j == Min(starts)
             IN  SubSeq(s, i, j - 1) \o r \o ReplaceAllFrom(s, pat, r, MatchEnd(pat, s, j) + 1)

\* s.replace(/pat/, r) without the g flag: only the leftmost match is replaced
ReplaceLeftmost(s, pat, r) ==
    LET starts == {j \in 1..Len(s) : MatchEnd(pat, s, j) > 0}
    IN  IF starts = {} THEN s
        ELSE LET j == Min(starts)
             IN  SubSeq(s, 1, j - 1) \o r \o SubSeq(s, MatchEnd(pat, s, j) + 1, Len(s))

ReplaceAll(s, pat, r) == ReplaceAllFrom(s, pat, r, 1)

\* url.match(/<prefix>(\d+)/): capture group 1 of the leftmost match, "" when
\* there is no match (a match always captures at least one digit)
DigitsAfter(s, prefix) ==
    LET starts == {i \in 1..Len(s) : OccursAt(s, prefix, i)
                                      /\ RunEnd(s, Digits, i + Len(prefix)) >= i + Len(prefix)}
    IN  IF starts = {} THEN ""
        ELSE LET i == Min(starts)
             IN  SubSeq(s, i + Len(prefix), RunEnd(s, Digits, i + Len(prefix)))

\* extractVideoId without its third pattern: what the code would do if the
\* modal_id form were forgotten
extractVideoIdPathOnly(url) ==
    IF DigitsAfter(url, "/video/") # "" THEN DigitsAfter(url, "/video/")
    ELSE IF DigitsAfter(url, "/note/") # "" THEN DigitsAfter(url, "/note/")
    ELSE ""

\* extractVideoId with the /note/ pattern tried before the /video/ pattern
extractVideoIdNoteFirst(url) ==
    IF DigitsAfter(url, "/note/") # "" THEN DigitsAfter(url, "/note/")
    ELSE IF DigitsAfter(url, "/video/") # "" THEN DigitsAfter(url, "/video/")
    ELSE IF DigitsAfter(url, "modal_id=") # "" THEN DigitsAfter(url, "modal_id=")
    ELSE ""

(***************************************************************************)
(* extractVideoId: "" stands for null (a captured identifier is never      *)
(* empty).                                                                 *)
(***************************************************************************)
extractVideoId(url) ==
    IF DigitsAfter(url, "/video/") # "" THEN DigitsAfter(url, "/video/")
    ELSE IF DigitsAfter(url, "/note/") # "" THEN DigitsAfter(url, "/note/")
    ELSE IF DigitsAfter(url, "modal_id=") # "" THEN DigitsAfter(url, "modal_id=")
    ELSE ""

(***************************************************************************)
(* DOMAIN_REPLACEMENTS and normalizeVideoUrl.                               *)
(***************************************************************************)
DOMAIN_REPLACEMENTS == <<
    <<"aweme.snssdk.com", "www.douyin.com">>,
    <<"api-h2.amemv.com", "www.douyin.com">>,
    <<"api.amemv.com", "www.douyin.com">>,
    <<"v\\d+-[a-z]+.douyinvod.com", "www.douyin.com">> >>

\* the loop of normalizeVideoUrl, from rule k on
RECURSIVE NormalizeFrom(_, _)
NormalizeFrom(url, k) ==
    IF k > Len(DOMAIN_REPLACEMENTS) THEN url
    ELSE NormalizeFrom(ReplaceAll(url, DOMAIN_REPLACEMENTS[k][1], DOMAIN_REPLACEMENTS[k][2]),
                       k + 1)

\* normalizeVideoUrl with the loop started one rule late
normalizeSkippingFirstRule(url) == NormalizeFrom(url, 2)

normalizeVideoUrl(url) == NormalizeFrom(url, 1)

(***************************************************************************)
(* JavaScript values, as far as the handlers look at them.  An object is   *)
(* the sequence of its <<key, value>> pairs in Object.keys order.          *)
(***************************************************************************)
Undef == [t |-> "undef"]

Null == [t |-> "null"]

Str(s) == [t |-> "str", s |-> s]

Num(n) == [t |-> "num", n |-> n]

Obj(kv) == [t |-> "obj", kv |-> kv]

Arr(a) == [t |-> "arr", a |-> a]

IsStr(v) == v.t = "str"

Nullish(v) == v.t \in {"undef", "null"}

\* ToBoolean(v)
Truthy(v) ==
    CASE v.t = "str" -> v.s # ""
      [] v.t = "num" -> v.n # 0
      [] v.t \in {"obj", "arr"} -> TRUE
      [] OTHER -> FALSE

\* a || b
OrElse(a, b) == IF Truthy(a) THEN a ELSE b

\* v[k] for a value v that is neither undefined nor null
Get(v, k) ==
    CASE v.t = "obj" ->
           LET hits == {i \in 1..Len(v.kv) : v.kv[i][1] = k}
           IN  IF hits = {} THEN Undef ELSE v.kv[Min(hits)][2]
      [] v.t = "arr" -> IF k = "length" THEN Num(Len(v.a)) ELSE Undef
      [] v.t = "str" -> IF k = "length" THEN Num(Len(v.s)) ELSE Undef
      [] OTHER -> Undef

\* v?.[k]
OptGet(v, k) == IF Nullish(v) THEN Undef ELSE Get(v, k)

\* v?.[0]
OptFirst(v) ==
    CASE v.t = "arr" -> IF Len(v.a) > 0 THEN v.a[1] ELSE Undef
      [] v.t = "str" -> IF Len(v.s) > 0 THEN Str(Ch(v.s, 1)) ELSE Undef
      [] v.t = "obj" -> Get(v, "0")
      [] OTHER -> Undef

\* v > 0 for the values a length property takes here
GtZero(v) == v.t = "num" /\ v.n > 0

\* the values Object.keys(obj) leads to, in iteration order
Children(v) ==
    CASE v.t = "obj" -> [i \in 1..Len(v.kv) |-> v.kv[i][2]]
      [] v.t = "arr" -> v.a
      [] OTHER -> <<>>

(***************************************************************************)
(* findVideoInObject.  The result is NoMatch (null), Thrown (a TypeError   *)
(* left the function) or a record of three JavaScript values.              *)
(***************************************************************************)
NoMatch == [k |-> "null"]

Thrown == [k |-> "throw"]

Found(v, c, d) == [k |-> "rec", videoSrc |-> v, coverSrc |-> c, desc |-> d]

IsFound(r) == r.k = "rec"

\* result && result.videoSrc
Usable(r) == IsFound(r) /\ Truthy(r.videoSrc)

\* obj.video?.cover?.url_list?.[0] || ''
LegacyCover(video) ==
    OrElse(OptFirst(OptGet(OptGet(video, "cover"), "url_list")), Str(""))

\* the playApi shape
PlayApiShape(obj) ==
    LET video == Get(obj, "video")
        api == Get(video, "playApi")
        cover == OrElse(OptFirst(OptGet(OptGet(video, "cover"), "urlList")),
                        OrElse(OptFirst(OptGet(OptGet(video, "dynamicCover"), "urlList")),
                               Str("")))
    IN  IF ~IsStr(api) THEN Thrown
        ELSE Found(IF StartsWith(api.s, "http") THEN api ELSE Str("https:" \o api.s),
                   cover, OrElse(Get(obj, "desc"), Str("")))

\* the play_addr shape
PlayAddrShape(obj) ==
    LET video == Get(obj, "video")
        first == OptFirst(Get(Get(video, "play_addr"), "url_list"))
    IN  IF ~IsStr(first) THEN Thrown
        ELSE Found(Str(ReplaceFirst(first.s, "playwm", "play")),
                   LegacyCover(video), OrElse(Get(obj, "desc"), Str("")))

\* the download_addr shape
DownloadAddrShape(obj) ==
    LET video == Get(obj, "video")
    IN  Found(OptFirst(Get(Get(video, "download_addr"), "url_list")),
              LegacyCover(video), OrElse(Get(obj, "desc"), Str("")))

\* obj.video && obj.video[addr] && obj.video[addr].url_list?.length > 0
HasAddr(obj, addr) ==
    LET video == Get(obj, "video")
    IN  /\ Truthy(video)
        /\ Truthy(Get(video, addr))
        /\ GtZero(OptGet(Get(Get(video, addr), "url_list"), "length"))

RECURSIVE findVideoInObject(_)
RECURSIVE FirstInChildren(_, _)
\* the loop over Object.keys(obj), from child i on
FirstInChildren(cs, i) ==
    IF i > Len(cs) THEN NoMatch
    ELSE LET r == findVideoInObject(cs[i])
         IN  IF r = Thrown THEN Thrown
             ELSE IF Usable(r) THEN r
             ELSE FirstInChildren(cs, i + 1)

findVideoInObject(obj) ==
    IF ~Truthy(obj) \/ obj.t \notin {"obj", "arr"} THEN NoMatch
    ELSE IF Truthy(Get(obj, "video")) /\ Truthy(Get(Get(obj, "video"), "playApi"))
         THEN PlayApiShape(obj)
    ELSE IF HasAddr(obj, "play_addr") THEN PlayAddrShape(obj)
    ELSE IF HasAddr(obj, "download_addr") THEN DownloadAddrShape(obj)
    ELSE FirstInChildren(Children(obj), 1)

(***************************************************************************)
(* URLs: what axios and new URL(location, base) are asked to do with them. *)
(***************************************************************************)
\* a URL axios can send a request to; any other target rejects without a response
IsHttpUrl(u) == StartsWith(u, "http://") \/ StartsWith(u, "https://")

\* scheme://host of an http(s) URL
Origin(u) ==
    LET a == Min(Occurrences(u, "://")) + 3
        slashes == {i \in a..Len(u) : Ch(u, i) \in {"/", "?", "#"}}
    IN  IF slashes = {} THEN u ELSE SubSeq(u, 1, Min(slashes) - 1)

\* new URL(location, base) throws: the modelled case is a scheme-relative
\* reference whose host opens an IPv6 literal and never closes it
Unresolvable(location) == StartsWith(location, "//[") /\ ~Includes(location, "]")

\* new URL(location, base).href for the Location values of the model:
\* scheme-relative (//host/path) and path-absolute (/path) references
ResolveAgainst(location, base) ==
    IF StartsWith(location, "//")
    THEN SubSeq(base, 1, Min(Occurrences(base, "://"))) \o location
    ELSE Origin(base) \o location

\* location.startsWith('http') ? location : new URL(location, currentUrl).href
NextUrl(location, base) ==
    IF StartsWith(location, "http") THEN location ELSE ResolveAgainst(location, base)

\* url.match(/(https?:\/\/[^\s]+)/): the leftmost URL-looking substring, "" when none
FirstUrl(s) ==
    LET begins(i) == \E p \in {"http://", "https://"} :
                        /\ OccursAt(s, p, i)
                        /\ i + Len(p) <= Len(s)
                        /\ Ch(s, i + Len(p)) \notin WhiteSpace
        starts == {i \in 1..Len(s) : begins(i)}
    IN  IF starts = {} THEN ""
        ELSE LET i == Min(starts)
                 spaces == {j \in i..Len(s) : Ch(s, j) \in WhiteSpace}
             IN  SubSeq(s, i, IF spaces = {} THEN Len(s) ELSE Min(spaces) - 1)

\* let targetUrl = url; if (urlMatch) targetUrl = urlMatch[0]
TargetUrl(url) == IF FirstUrl(url) # "" THEN FirstUrl(url) ELSE url

(***************************************************************************)
(* The inputs the environment chooses from.                                *)
(***************************************************************************)
\* req.body.url
Inputs == <<
    Undef,
    Str(""),
    Num(7),
    Str("https://v.douyin.com/iAbC/"),
    Str("3.05 look https://v.douyin.com/iAbC/ copy this"),
    Str("https://www.douyin.com/video/7123"),
    Str("https://www.douyin.com/note/88?x=1"),
    Str("https://www.douyin.com/jingxuan?modal_id=9"),
    Str("v.douyin.com/iAbC") >>

\* Location headers of a redirect; "" stands for a response without the header
Locations == {
    "",
    "https://www.iesdouyin.com/share/video/7123/?region=CN",
    "https://www.douyin.com/jump?to=1",
    "/share/note/88",
    "/s/next",
    "//[" }

\* resp.request.res.responseUrl of a followed request; "" stands for undefined
EffectiveUrls == {"", "https://www.douyin.com/video/7123", "https://www.douyin.com/home"}

\* the hop limit of the manual redirect loop
MaxHops == 10

\* what axios.get(currentUrl, {maxRedirects: 0, validateStatus: 2xx}) ends with:
\* a 2xx response, a response with another status (thrown with err.response), or
\* no response at all
ManualOutcomes ==
    [kind : {"ok"}, status : {200}, location : {""}, respUrl : EffectiveUrls]
    \cup [kind : {"status"}, status : {302, 404}, location : Locations, respUrl : {""}]
    \cup [kind : {"neterr"}, status : {0}, location : {""}, respUrl : {""}]

\* what the auto-following axios.get(shortUrl, {maxRedirects: 10}) ends with
FallbackOutcomes ==
    [kind : {"ok"}, respUrl : EffectiveUrls, location : {""}]
    \cup [kind : {"fault"}, respUrl : EffectiveUrls,
          location : {"", "https://www.douyin.com/video/7123"}]

(***************************************************************************)
(* JSON bodies and pages the upstream services answer with.                *)
(***************************************************************************)
\* an aweme object with one address shape: {desc, video: {<addr>: {url_list: [u]}, cover}}
Aweme(addr, u, d) ==
    Obj(<< <<"desc", d>>,
           <<"video", Obj(<< <<addr, Obj(<< <<"url_list", Arr(<<u>>)>> >>)>>,
                             <<"cover", Obj(<< <<"url_list", Arr(<<Str("https://p3.douyinpic.com/c.jpg")>>)>> >>)>> >>)>> >>)

\* an aweme object of the playApi shape
ModernAweme(api, d) ==
    Obj(<< <<"desc", d>>,
           <<"video", Obj(<< <<"playApi", api>>,
                             <<"cover", Obj(<< <<"urlList", Arr(<<Str("https://p3.douyinpic.com/m.jpg")>>)>> >>)>> >>)>> >>)

\* bodies tried as JSON trees by the strategies that run findVideoInObject
Trees == <<
    Obj(<< <<"status_code", Num(0)>>, <<"filter", Obj(<< <<"reason", Str("gone")>> >>)>> >>),
    ModernAweme(Str("//v26-web.douyinvod.com/aa/video/tos/1.mp4"), Str("hi")),
    ModernAweme(Num(1), Str("hi")),
    Aweme("play_addr", Str("https://aweme.snssdk.com/aweme/v1/playwm/?video_id=v0200"), Str("")),
    Aweme("play_addr", Num(5), Str("hi")),
    Aweme("download_addr", Str("https://api-h2.amemv.com/aweme/v1/play/?video_id=v0300"), Str("dl")),
    Aweme("download_addr", Num(5), Str("hi")),
    Aweme("download_addr", Str(""), Str("hi")),
    Aweme("download_addr", Str("https://v3-aweme.snssdk.com.douyinvod.com/?u=api.amemv.com"), Str("")),
    Obj(<< <<"extra", Arr(<<Null, Str("x")>>)>>,
           <<"list", Arr(<<Aweme("play_addr", Str("https://api.amemv.com/playwm/playwm/2"), Str("deep"))>>)>> >>) >>

\* what one axios request of a strategy ends with: a fault, or a body
ApiOutcomes ==
    <<[kind |-> "fault", data |-> Undef], [kind |-> "ok", data |-> Undef],
      [kind |-> "ok", data |-> Str("<html>blocked</html>")]>>
    \o [i \in 1..Len(Trees) |-> [kind |-> "ok", data |-> Obj(<< <<"aweme_detail", Trees[i]>> >>)]]

\* what JSON.parse of one piece of embedded page data gives: nothing to parse,
\* text that does not parse, or a tree
Embedded ==
    <<[m |-> "none", v |-> Undef], [m |-> "bad", v |-> Undef]>>
    \o [i \in 1..Len(Trees) |-> [m |-> "json", v |-> Trees[i]]]

(***************************************************************************)
(* State of one POST /api/parse request.  The handler is an async          *)
(* function: it runs from one await to the next, so every action is the    *)
(* code between two network responses.                                     *)
(***************************************************************************)
VARIABLES
    reqUrl,        \* const { url } = req.body
    pc,            \* where the handler is suspended: "idle", "manual", "fallback",
                   \* "s1" .. "s5" (awaiting that strategy's response), "done"
    targetUrl,     \* the argument shortUrl of resolveShortUrl
    currentUrl,    \* resolveShortUrl: currentUrl
    hops,          \* resolveShortUrl: the loop counter i
    manualEnd,     \* how the manual loop was left: "none", "terminal" (2xx), "found"
                   \* (redirect to a URL with an identifier), "bound", "fault",
                   \* "noLocation", "raised"
    exit,          \* the return statement resolveShortUrl left by: "none", "direct",
                   \* "terminal", "redirect", "fallback", "fallbackFault", "raised"
    finalUrl,      \* const { finalUrl, videoId } of the handler
    videoId,       \* "" stands for null
    videoSrc,      \* let videoSrc, coverSrc, desc of the handler (JavaScript values)
    coverSrc,
    desc,
    response,      \* what res.status(..).json(..) sent
    sent,          \* how many times a response was written
    manualReqs,    \* requests issued by the manual redirect loop
    fallbackReqs,  \* requests issued by the auto-follow fallback
    fallbackUrl,   \* the URL the fallback request went to, "" while there is none
    requested,     \* the URLs resolveShortUrl sent a request to
    stratReqs      \* requests issued by each extraction strategy

vars == <<reqUrl, pc, targetUrl, currentUrl, hops, manualEnd, exit, finalUrl, videoId, videoSrc,
          coverSrc, desc, response, sent, manualReqs, fallbackReqs, fallbackUrl, requested, stratReqs>>

resolverVars == <<targetUrl, currentUrl, hops, manualEnd, exit, finalUrl, videoId,
                  manualReqs, fallbackReqs, fallbackUrl, requested>>

Strategies == 1..5

StrategyPc == <<"s1", "s2", "s3", "s4", "s5">>

NoResponse ==
    [status |-> 0, success |-> "none", error |-> "", url |-> "", cover |-> Undef,
     desc |-> Undef, isDemo |-> FALSE]

\* res.status(status).json({ error })
ErrorResponse(status, error) == [NoResponse EXCEPT !.status = status, !.error = error]

\* the answer of the older handler to the same situation: a placeholder record
DemoResponse ==
    [NoResponse EXCEPT !.status = 200, !.success = "true", !.isDemo = TRUE,
                       !.url = "https://interactive-examples.mdn.mozilla.net/media/cc0-videos/flower.mp4",
                       !.cover = Str("https://picsum.photos/seed/douyin/400/600"),
                       !.desc = Str("demo")]

\* res.json({ success: false, error }) when no strategy gave a media URL
AllFailedResponse ==
    [NoResponse EXCEPT !.status = 200, !.success = "false", !.error = "all strategies failed"]

\* stands for the default description text of the success payload
DefaultDesc == "douyin video"

\* res.json({ success: true, data: { url, cover, desc: desc || default } })
SuccessResponse(url, cover, d) ==
    [NoResponse EXCEPT !.status = 200, !.success = "true", !.url = url, !.cover = cover,
                       !.desc = OrElse(d, Str(DefaultDesc))]

Init ==
    /\ reqUrl = Undef
    /\ pc = "idle"
    /\ targetUrl = ""
    /\ currentUrl = ""
    /\ hops = 0
    /\ manualEnd = "none"
    /\ exit = "none"
    /\ finalUrl = ""
    /\ videoId = ""
    /\ videoSrc = Str("")
    /\ coverSrc = Str("")
    /\ desc = Str("")
    /\ response = NoResponse
    /\ sent = 0
    /\ manualReqs = 0
    /\ fallbackReqs = 0
    /\ fallbackUrl = ""
    /\ requested = {}
    /\ stratReqs = [n \in Strategies |-> 0]

\* the handler answers and ends
Respond(r) ==
    /\ response' = r
    /\ sent' = sent + 1
    /\ pc' = "done"

\* the request of strategy n is issued and the handler waits for its response
StartStrategy(n) ==
    /\ stratReqs' = [stratReqs EXCEPT ![n] = @ + 1]
    /\ pc' = StrategyPc[n]
    /\ UNCHANGED <<response, sent>>

\* the guard always taken: every strategy runs whatever was found before
NoMediaYetIgnored(v) == TRUE

\* the guard never taken: the handler answers after the first strategy
NoMediaYetDropped(v) == FALSE

\* if (!videoSrc) in front of every strategy after the first, and of the final check
NoMediaYet(v) == ~Truthy(v)

\* videoSrc = normalizeVideoUrl(videoSrc); res.json(success): a videoSrc that is
\* not a string has no replace method, the TypeError reaches the outer catch
Finish(v, c, d) ==
    IF IsStr(v) THEN Respond(SuccessResponse(normalizeVideoUrl(v.s), c, d))
    ELSE Respond(ErrorResponse(500, "unhandled"))

\* the handler after strategy n ended with the values v, c, d of videoSrc,
\* coverSrc and desc: the next strategy whose guard lets it run, or the answer
AfterStrategy(n, v, c, d) ==
    /\ videoSrc' = v
    /\ coverSrc' = c
    /\ desc' = d
    /\ IF NoMediaYet(v)
       THEN IF n < 5 THEN StartStrategy(n + 1)
            ELSE Respond(AllFailedResponse) /\ UNCHANGED stratReqs
       ELSE Finish(v, c, d) /\ UNCHANGED stratReqs

\* the handler without its if (!videoId) check
ReturnedUnchecked(fu, id, how) ==
    /\ finalUrl' = fu
    /\ videoId' = id
    /\ exit' = how
    /\ StartStrategy(1)

\* the handler after resolveShortUrl returned { finalUrl: fu, videoId: id }
Returned(fu, id, how) ==
    /\ finalUrl' = fu
    /\ videoId' = id
    /\ exit' = how
    /\ IF id = ""
       THEN Respond(ErrorResponse(400, "no video id")) /\ UNCHANGED stratReqs
       ELSE StartStrategy(1)

\* an exception leaves resolveShortUrl and reaches the outer catch of the handler
Raised ==
    /\ Respond(ErrorResponse(500, "unhandled"))
    /\ exit' = "raised"
    /\ manualEnd' = "raised"
    /\ UNCHANGED <<finalUrl, videoId, stratReqs>>

\* the fallback restarting from the URL the manual loop has reached
StartFallbackFromCurrent(reason) ==
    /\ manualEnd' = reason
    /\ fallbackReqs' = fallbackReqs + 1
    /\ fallbackUrl' = currentUrl
    /\ requested' = requested \cup {currentUrl}
    /\ pc' = "fallback"
    /\ UNCHANGED <<finalUrl, videoId, exit, response, sent, stratReqs>>

\* the manual loop is left without an identifier and the auto-following
\* axios.get(shortUrl, { maxRedirects: 10 }) is issued
StartFallback(reason) ==
    /\ manualEnd' = reason
    /\ fallbackReqs' = fallbackReqs + 1
    /\ fallbackUrl' = targetUrl
    /\ requested' = requested \cup {targetUrl}
    /\ pc' = "fallback"
    /\ UNCHANGED <<finalUrl, videoId, exit, response, sent, stratReqs>>

\* axios.get(currentUrl, { maxRedirects: 0 }) of iteration i of the loop is issued
StartHop(u, i) ==
    /\ currentUrl' = u
    /\ hops' = i
    /\ manualReqs' = manualReqs + 1
    /\ requested' = requested \cup {u}
    /\ pc' = "manual"
    /\ UNCHANGED <<finalUrl, videoId, exit, manualEnd, response, sent, stratReqs, fallbackReqs, fallbackUrl>>

\* POST /api/parse arrives with req.body.url = url: the input check, the URL
\* extraction and resolveShortUrl up to its first request
Receive(url) ==
    /\ pc = "idle"
    /\ reqUrl' = url
    /\ UNCHANGED <<videoSrc, coverSrc, desc>>
    /\ IF ~Truthy(url)
       THEN /\ Respond(ErrorResponse(400, "URL is required"))
            /\ UNCHANGED <<resolverVars, stratReqs>>
       ELSE IF ~IsStr(url)
       THEN /\ Respond(ErrorResponse(500, "unhandled"))
            /\ UNCHANGED <<resolverVars, stratReqs>>
       ELSE /\ targetUrl' = TargetUrl(url.s)
            /\ IF extractVideoId(TargetUrl(url.s)) # ""
               THEN /\ Returned(TargetUrl(url.s), extractVideoId(TargetUrl(url.s)), "direct")
                    /\ UNCHANGED <<currentUrl, hops, manualEnd, manualReqs, fallbackReqs, fallbackUrl,
                                   requested>>
               ELSE StartHop(TargetUrl(url.s), 0)

\* the redirect branch of the catch block is taken
IsRedirect(r) == r.kind = "status" /\ r.status >= 300 /\ r.status < 400 /\ r.location # ""

\* the 2xx branch: the identifier of currentUrl, else of the response URL, else null
Terminal(respUrl) ==
    /\ manualEnd' = "terminal"
    /\ UNCHANGED <<currentUrl, hops, manualReqs, fallbackReqs, fallbackUrl, requested>>
    /\ IF extractVideoId(currentUrl) # ""
       THEN Returned(currentUrl, extractVideoId(currentUrl), "terminal")
       ELSE IF respUrl # "" /\ extractVideoId(respUrl) # ""
       THEN Returned(respUrl, extractVideoId(respUrl), "terminal")
       ELSE Returned(currentUrl, "", "terminal")

\* the loop with its bound off by one
ContinueOneMore(u) ==
    IF hops + 1 <= MaxHops
    THEN StartHop(u, hops + 1)
    ELSE StartFallback("bound") /\ currentUrl' = u /\ hops' = hops + 1
                                /\ UNCHANGED manualReqs

\* currentUrl = nextUrl; continue: one more iteration of
\* for (let i = 0; i < 10; i++), or the fallback when the loop has run out
Continue(u) ==
    IF hops + 1 < MaxHops
    THEN StartHop(u, hops + 1)
    ELSE StartFallback("bound") /\ currentUrl' = u /\ hops' = hops + 1
                                /\ UNCHANGED manualReqs

\* the redirect branch without the early test of the next URL
FollowRedirectBlindly(location) == Continue(NextUrl(location, currentUrl))

\* a redirect with a Location header: the next URL is tested for an identifier
\* before anything is requested from it
FollowRedirect(location) ==
    IF ~StartsWith(location, "http") /\ Unresolvable(location)
    THEN Raised /\ UNCHANGED <<currentUrl, hops, manualReqs, fallbackReqs, fallbackUrl, requested>>
    ELSE IF extractVideoId(NextUrl(location, currentUrl)) # ""
    THEN /\ Returned(NextUrl(location, currentUrl),
                     extractVideoId(NextUrl(location, currentUrl)), "redirect")
         /\ manualEnd' = "found"
         /\ UNCHANGED <<currentUrl, hops, manualReqs, fallbackReqs, fallbackUrl, requested>>
    ELSE Continue(NextUrl(location, currentUrl))

\* a failed hop that returns at once, as the 2xx branch does
HopFailedReturns(reason) ==
    /\ manualEnd' = reason
    /\ Returned(currentUrl, "", "terminal")
    /\ UNCHANGED <<currentUrl, hops, manualReqs, fallbackReqs, fallbackUrl, requested>>

\* a failed hop whose request is issued once more before the loop is left
HopFailedRetriesOnce(reason) ==
    IF manualReqs = hops + 1
    THEN StartHop(currentUrl, hops)
    ELSE StartFallback(reason) /\ UNCHANGED <<currentUrl, hops, manualReqs>>

\* console.log('Manual following error'); break: the loop is left for the fallback
HopFailed(reason) ==
    StartFallback(reason) /\ UNCHANGED <<currentUrl, hops, manualReqs>>

\* the response to a request of the manual loop arrives
ManualResponse(r) ==
    /\ pc = "manual"
    /\ IsHttpUrl(currentUrl) \/ r.kind = "neterr"
    /\ UNCHANGED <<reqUrl, videoSrc, coverSrc, desc, targetUrl>>
    /\ IF r.kind = "ok" THEN Terminal(r.respUrl)
       ELSE IF IsRedirect(r) THEN FollowRedirect(r.location)
       ELSE IF r.kind = "status" /\ r.status >= 300 /\ r.status < 400
       THEN HopFailed("noLocation")
       ELSE HopFailed("fault")

\* the response to the auto-follow request arrives
FallbackResponse(r) ==
    /\ pc = "fallback"
    /\ IsHttpUrl(targetUrl) \/ r = [kind |-> "fault", respUrl |-> "", location |-> ""]
    /\ UNCHANGED <<reqUrl, videoSrc, coverSrc, desc, targetUrl, currentUrl, hops, manualEnd,
                   manualReqs, fallbackReqs, fallbackUrl, requested>>
    /\ LET fu == IF r.respUrl # "" THEN r.respUrl
                 ELSE IF r.location # "" THEN r.location
                 ELSE targetUrl
       IN  Returned(fu, extractVideoId(fu), IF r.kind = "ok" THEN "fallback" ELSE "fallbackFault")

(***************************************************************************)
(* The five extraction strategies.  Each takes the response r and the      *)
(* current values of videoSrc, coverSrc and desc, and gives their values   *)
(* when its try block is left (normally, or through its catch).            *)
(***************************************************************************)
Vals(v, c, d) == [videoSrc |-> v, coverSrc |-> c, desc |-> d]

Cur == Vals(videoSrc, coverSrc, desc)

\* if (result && result.videoSrc) { videoSrc = ...; coverSrc = ...; desc = ... }
Take(res, cur) ==
    IF Usable(res) THEN Vals(res.videoSrc, res.coverSrc, res.desc) ELSE cur

\* strategy 1: the detail API
Strategy1(r, cur) ==
    IF r.kind = "fault" THEN cur
    ELSE LET detail == OptGet(r.data, "aweme_detail")
         IN  IF Truthy(detail) THEN Take(findVideoInObject(detail), cur) ELSE cur

\* the two patterns tried on one script body, in order; a JSON.parse error or an
\* error of the search is swallowed by the inner catch
ScanScript(script, cur) ==
    LET try(e) == IF e.m = "json" THEN Take(findVideoInObject(e.v), cur) ELSE cur
    IN  IF Truthy(try(script[1]).videoSrc) THEN try(script[1]) ELSE try(script[2])

\* $('script').each(...): scripts are skipped once videoSrc is set
RECURSIVE ScanScripts(_, _, _)
ScanScripts(scripts, i, cur) ==
    IF i > Len(scripts) \/ Truthy(cur.videoSrc) THEN cur
    ELSE ScanScripts(scripts, i + 1, ScanScript(scripts[i], cur))

\* strategy 2: the desktop page.  decodeURIComponent, JSON.parse and the search
\* of RENDER_DATA run unguarded inside the strategy's try block
Strategy2(r, cur) ==
    IF r.kind = "fault" THEN cur
    ELSE IF r.render.m = "bad" THEN cur
    ELSE IF r.render.m = "json" /\ findVideoInObject(r.render.v) = Thrown THEN cur
    ELSE LET afterRender == IF r.render.m = "json"
                            THEN Take(findVideoInObject(r.render.v), cur) ELSE cur
         IN  IF NoMediaYet(afterRender.videoSrc)
             THEN ScanScripts(r.scripts, 1, afterRender)
             ELSE afterRender

\* m[1].replace(/\\u002F/g, '/').replace(/\\\//g, '/')
Unescape(s) == ReplaceAll(ReplaceAll(s, "\\u002F", "/"), "\\/", "/")

\* the media URL strategy 3 makes of a captured string
MobileSrc(capture) ==
    LET src == Unescape(capture)
        full == IF StartsWith(src, "//") THEN "https:" \o src
                ELSE IF StartsWith(src, "http") THEN src
                ELSE "https:" \o src
    IN  ReplaceFirst(full, "playwm", "play")

\* one script body of the mobile page: the first of the three patterns that
\* captures a non-empty string wins
MobileScript(script, cur) ==
    LET hits == {p \in 1..3 : script.caps[p] # ""}
    IN  IF ~script.marker \/ hits = {} THEN cur
        ELSE [cur EXCEPT !.videoSrc = Str(MobileSrc(script.caps[Min(hits)]))]

RECURSIVE MobileScripts(_, _, _)
MobileScripts(scripts, i, cur) ==
    IF i > Len(scripts) \/ Truthy(cur.videoSrc) THEN cur
    ELSE MobileScripts(scripts, i + 1, MobileScript(scripts[i], cur))

\* strategy 3: the mobile page, then any .mp4 URL of the page text
Strategy3(r, cur) ==
    IF r.kind = "fault" THEN cur
    ELSE LET scanned == MobileScripts(r.scripts, 1, cur)
         IN  IF NoMediaYet(scanned.videoSrc) /\ r.mp4 # ""
             THEN [scanned EXCEPT !.videoSrc = Str(r.mp4)]
             ELSE scanned

\* strategy 4: the legacy item-info API
Strategy4(r, cur) ==
    IF r.kind = "fault" THEN cur
    ELSE LET itemList == OptGet(r.data, "item_list")
             item == OptFirst(itemList)
             first == OptFirst(OptGet(OptGet(OptGet(item, "video"), "play_addr"), "url_list"))
         IN  IF ~(Truthy(itemList) /\ GtZero(Get(itemList, "length"))) THEN cur
             ELSE IF Nullish(item) THEN cur
             ELSE IF ~Truthy(first) THEN cur
             ELSE IF ~IsStr(first) THEN cur
             ELSE Vals(Str(ReplaceFirst(first.s, "playwm", "play")),
                       LegacyCover(OptGet(item, "video")),
                       OrElse(Get(item, "desc"), Str("")))

\* the URL strategy 5 builds from the identifier
CdnUrl(id) == "https://www.douyin.com/aweme/v1/play/?video_id=" \o id \o "&ratio=720p&line=0"

\* strategy 5 taking every answered probe for a success
Strategy5AnyAnswer(r, cur) ==
    IF r.kind = "ok" THEN [cur EXCEPT !.videoSrc = Str(CdnUrl(videoId))]
    ELSE cur

\* strategy 5: the header-only probe of the constructed URL
Strategy5(r, cur) ==
    IF r.kind = "ok" /\ r.status = 200 THEN [cur EXCEPT !.videoSrc = Str(CdnUrl(videoId))]
    ELSE cur

\* what the desktop page request ends with
PageOutcomes ==
    <<[kind |-> "fault", render |-> Embedded[1], scripts |-> <<>>]>>
    \o [i \in 1..Len(Embedded) |->
            [kind |-> "ok", render |-> Embedded[i], scripts |-> <<>>]]
    \o [i \in 1..Len(Embedded) |->
            [kind |-> "ok", render |-> Embedded[i],
             scripts |-> << <<Embedded[1], Embedded[2]>>, <<Embedded[5], Embedded[8]>>,
                            <<Embedded[3], Embedded[4]>> >>]]

\* what the mobile page request ends with
MobileOutcomes == <<
    [kind |-> "fault", scripts |-> <<>>, mp4 |-> ""],
    [kind |-> "ok", scripts |-> <<>>, mp4 |-> ""],
    [kind |-> "ok", scripts |-> <<>>, mp4 |-> "https://v3-dy.douyinvod.com/playwm/9.mp4?a=1"],
    [kind |-> "ok", mp4 |-> "https://v3-dy.douyinvod.com/9.mp4",
     scripts |-> <<[marker |-> FALSE, caps |-> <<"", "", "">>],
                   [marker |-> TRUE, caps |-> <<"", "", "">>],
                   [marker |-> TRUE,
                    caps |-> <<"", "https:\\u002F\\u002Faweme.snssdk.com\\u002Faweme\\u002Fv1\\u002Fplaywm\\u002F?video_id=v1",
                               "\\/\\/api.amemv.com\\/playwm">>]>>],
    [kind |-> "ok", mp4 |-> "",
     scripts |-> <<[marker |-> TRUE, caps |-> <<"", "", "\\/\\/api.amemv.com\\/x\\/playwm\\/playwm">>],
                   [marker |-> TRUE, caps |-> <<"//first.example/never", "", "">>]>>],
    [kind |-> "ok", mp4 |-> "",
     scripts |-> <<[marker |-> TRUE, caps |-> <<"v9-x.douyinvod.com/playApi", "", "">>]>>] >>

\* what the item-info request ends with
ItemInfoOutcomes == <<
    [kind |-> "fault", data |-> Undef],
    [kind |-> "ok", data |-> Undef],
    [kind |-> "ok", data |-> Str("<html>")],
    [kind |-> "ok", data |-> Obj(<< <<"item_list", Arr(<<>>)>> >>)],
    [kind |-> "ok", data |-> Obj(<< <<"item_list", Arr(<<Null>>)>> >>)],
    [kind |-> "ok", data |-> Obj(<< <<"item_list", Arr(<<Trees[4]>>)>> >>)],
    [kind |-> "ok", data |-> Obj(<< <<"item_list", Arr(<<Trees[5]>>)>> >>)],
    [kind |-> "ok", data |-> Obj(<< <<"item_list", Arr(<<Trees[6]>>)>> >>)],
    [kind |-> "ok", data |-> Obj(<< <<"item_list",
        Arr(<<Aweme("play_addr", Str("https://v5-abc.douyinvod.com/playwm/playwm"), Str("old"))>>)>> >>)] >>

\* what the HEAD probe ends with (axios rejects every status outside 2xx)
ProbeOutcomes ==
    [kind : {"ok"}, status : {200, 204}] \cup [kind : {"fault"}, status : {0, 404}]

\* the response of strategy n arrives: the rest of its try block runs, then the
\* handler goes on to the next await or to its answer
Strategy1Response(r) ==
    /\ pc = "s1"
    /\ LET o == Strategy1(r, Cur) IN AfterStrategy(1, o.videoSrc, o.coverSrc, o.desc)
    /\ UNCHANGED <<reqUrl, resolverVars>>

Strategy2Response(r) ==
    /\ pc = "s2"
    /\ LET o == Strategy2(r, Cur) IN AfterStrategy(2, o.videoSrc, o.coverSrc, o.desc)
    /\ UNCHANGED <<reqUrl, resolverVars>>

Strategy3Response(r) ==
    /\ pc = "s3"
    /\ LET o == Strategy3(r, Cur) IN AfterStrategy(3, o.videoSrc, o.coverSrc, o.desc)
    /\ UNCHANGED <<reqUrl, resolverVars>>

Strategy4Response(r) ==
    /\ pc = "s4"
    /\ LET o == Strategy4(r, Cur) IN AfterStrategy(4, o.videoSrc, o.coverSrc, o.desc)
    /\ UNCHANGED <<reqUrl, resolverVars>>

Strategy5Response(r) ==
    /\ pc = "s5"
    /\ LET o == Strategy5(r, Cur) IN AfterStrategy(5, o.videoSrc, o.coverSrc, o.desc)
    /\ UNCHANGED <<reqUrl, resolverVars>>

(***************************************************************************)
(* normalizeVideoUrl on its own.  A media URL is normalized by POST         *)
(* /api/parse before it is answered, and the URL the client then hands to   *)
(* GET /api/proxy is normalized again.  The URL is put together from        *)
(* fragments that hold the hosts of the table, their pieces and the         *)
(* replacement host.                                                        *)
(***************************************************************************)
VARIABLES
    normPc,        \* "idle", "called", "once" (normalized by the parse handler),
                   \* "twice" (normalized again by the proxy handler)
    normUrl,       \* the URL before any normalization
    normOnce,      \* normalizeVideoUrl(normUrl)
    normTwice      \* normalizeVideoUrl(normOnce)

normVars == <<normPc, normUrl, normOnce, normTwice>>

UrlFragments == {
    "aweme.snssdk.com", "api-h2.amemv.com", "api.amemv.com", "v26-web.douyinvod.com",
    "www.douyin.com", "v1-", ".douyinvod.com", "api", "/play/?u=" }

\* how many fragments a URL is made of at most
MaxFragments == 3

\* the concatenation of the strings q[i], q[i+1], ...
RECURSIVE Join(_, _)
Join(q, i) == IF i > Len(q) THEN "" ELSE q[i] \o Join(q, i + 1)

FragmentUrls ==
    {Join(q, 1) : q \in UNION {[1..n -> UrlFragments] : n \in 0..MaxFragments}}

NormIdle == normPc = "idle" /\ normUrl = "" /\ normOnce = "" /\ normTwice = ""

NormInit == normPc = "called" /\ normUrl \in FragmentUrls /\ normOnce = "" /\ normTwice = ""

\* videoSrc = normalizeVideoUrl(videoSrc) of the parse handler
NormalizeOnce ==
    /\ normPc = "called"
    /\ normOnce' = normalizeVideoUrl(normUrl)
    /\ normPc' = "once"
    /\ UNCHANGED <<normUrl, normTwice>>

\* const normalizedUrl = normalizeVideoUrl(url) of the proxy handler
NormalizeAgain ==
    /\ normPc = "once"
    /\ normTwice' = normalizeVideoUrl(normOnce)
    /\ normPc' = "twice"
    /\ UNCHANGED <<normUrl, normOnce>>

(***************************************************************************)
(* findVideoInObject call by call.  Every invocation is a frame of the     *)
(* call stack: the object it was called on and the index of the key its    *)
(* loop has reached.  The input is a value whose children may be           *)
(* references into a heap, so that an object can contain itself.           *)
(***************************************************************************)
VARIABLES
    heap,          \* the objects a reference leads to
    searchRoot,    \* the argument of the outermost call
    callStack,     \* the invocations whose loop over Object.keys is running
    returning,     \* the value the invocation that just ended returned or threw;
                   \* Pending while the invocation on top of the stack runs
    visited,       \* the values findVideoInObject was called on, in call order
    deepest        \* the largest number of invocations active at a time

searchVars == <<heap, searchRoot, callStack, returning, visited, deepest>>

\* a reference to heap[id]
Ref(id) == [t |-> "ref", id |-> id]

Deref(v) == IF v.t = "ref" THEN heap[v.id] ELSE v

Pending == [k |-> "pending"]

\* RangeError: the engine has no room for another invocation
Overflow == [k |-> "overflow"]

\* how many invocations the engine's call stack holds
StackLimit == 6

\* typeof obj === 'object' of a value that is not null
IsObject(v) == v.t \in {"obj", "arr"}

\* the three shape tests of one invocation, in the order of the code: the record
\* or the TypeError the invocation ends with, NoMatch when it goes on to its loop
ShapeAt(obj) ==
    IF Truthy(Get(obj, "video")) /\ Truthy(Get(Get(obj, "video"), "playApi"))
    THEN PlayApiShape(obj)
    ELSE IF HasAddr(obj, "play_addr") THEN PlayAddrShape(obj)
    ELSE IF HasAddr(obj, "download_addr") THEN DownloadAddrShape(obj)
    ELSE NoMatch

\* an object that matches all three shapes, with a matching object among its children
EveryShape ==
    Obj(<< <<"desc", Str("all")>>,
           <<"video", Obj(<< <<"download_addr", Obj(<< <<"url_list", Arr(<<Str("https://x.example/dl")>>)>> >>)>>,
                             <<"play_addr", Obj(<< <<"url_list", Arr(<<Str("https://x.example/playwm")>>)>> >>)>>,
                             <<"playApi", Str("https://x.example/api")>> >>)>>,
           <<"inner", Aweme("download_addr", Str("https://x.example/inner"), Str("in"))>> >>)

\* an object that matches the two legacy shapes
BothLegacy ==
    Obj(<< <<"video", Obj(<< <<"download_addr", Obj(<< <<"url_list", Arr(<<Str("https://y.example/dl")>>)>> >>)>>,
                             <<"play_addr", Obj(<< <<"url_list", Arr(<<Str("https://y.example/play")>>)>> >>)>> >>)>>,
           <<"desc", Str("two")>> >>)

\* the values the search meets below the root: matching objects of every shape,
\* matches with an empty or wrongly typed URL, objects without a match, scalars
Leaves == <<
    Trees[1], Trees[2], Trees[3], Trees[4], Trees[5], Trees[6], Trees[8],
    EveryShape, BothLegacy,
    Aweme("play_addr", Str(""), Str("e")),
    Null, Str("x") >>

\* how many levels are put around the leaves at most
MaxNest == 3

\* v inside n levels of objects and arrays
RECURSIVE Wrap(_, _)
Wrap(v, n) ==
    IF n = 0 THEN v
    ELSE IF n % 2 = 1 THEN Obj(<< <<"id", Num(n)>>, <<"data", Wrap(v, n - 1)>> >>)
    ELSE Arr(<<Wrap(v, n - 1)>>)

\* finite trees: one leaf, or two leaves as siblings in either order, at every depth
FiniteInputs ==
    {[root |-> Wrap(Leaves[a], n), heap |-> <<>>] : a \in 1..Len(Leaves), n \in 0..MaxNest}
    \cup {[root |-> Wrap(Obj(<< <<"a", Leaves[a]>>, <<"b", Leaves[b]>> >>), n), heap |-> <<>>] :
            a \in 1..Len(Leaves), b \in 1..Len(Leaves), n \in 0..MaxNest}

\* objects that contain themselves, directly or through another object, with a
\* matching child before or after the reference
CyclicInputs == {
    [root |-> Ref(1), heap |-> <<Obj(<< <<"self", Ref(1)>> >>)>>],
    [root |-> Ref(1), heap |-> <<Obj(<< <<"hit", Trees[2]>>, <<"self", Ref(1)>> >>)>>],
    [root |-> Ref(1), heap |-> <<Obj(<< <<"self", Ref(1)>>, <<"hit", Trees[2]>> >>)>>],
    [root |-> Ref(1), heap |-> <<Obj(<< <<"n", Num(1)>>, <<"next", Ref(2)>> >>),
                                 Arr(<<Null, Ref(1)>>)>>] }

SearchIdle ==
    /\ heap = <<>>
    /\ searchRoot = Undef
    /\ callStack = <<>>
    /\ returning = Pending
    /\ visited = <<>>
    /\ deepest = 0

SearchInit ==
    /\ \E in \in FiniteInputs \cup CyclicInputs : heap = in.heap /\ searchRoot = in.root
    /\ callStack = <<>>
    /\ returning = Pending
    /\ visited = <<>>
    /\ deepest = 0

\* the invocation on top of the stack
Top == callStack[Len(callStack)]

\* the stack without its top
Popped == SubSeq(callStack, 1, Len(callStack) - 1)

\* the outermost call has returned or thrown
SearchDone == callStack = <<>> /\ returning # Pending

\* findVideoInObject(arg) is entered: it ends at once when arg is no object or
\* matches a shape, otherwise its loop over the keys starts
Invoke(arg) ==
    IF Len(callStack) >= StackLimit
    THEN returning' = Overflow /\ UNCHANGED <<callStack, visited, deepest>>
    ELSE /\ visited' = Append(visited, Deref(arg))
         /\ deepest' = IF Len(callStack) + 1 > deepest THEN Len(callStack) + 1 ELSE deepest
         /\ IF ~Truthy(Deref(arg)) \/ ~IsObject(Deref(arg))
            THEN returning' = NoMatch /\ UNCHANGED callStack
            ELSE IF ShapeAt(Deref(arg)) # NoMatch
            THEN returning' = ShapeAt(Deref(arg)) /\ UNCHANGED callStack
            ELSE /\ callStack' = Append(callStack, [obj |-> Deref(arg), i |-> 1])
                 /\ UNCHANGED returning

\* the outermost call, or the call findVideoInObject(obj[key]) of the loop
SearchEnter ==
    /\ returning = Pending
    /\ UNCHANGED <<heap, searchRoot>>
    /\ IF callStack = <<>>
       THEN visited = <<>> /\ Invoke(searchRoot)
       ELSE Top.i <= Len(Children(Top.obj)) /\ Invoke(Children(Top.obj)[Top.i])

\* the inner if that keeps every record, whatever its media URL
KeepsAnyRecord(r) == IsFound(r)

\* if (result && result.videoSrc) return result
Keeps(r) == Usable(r)

\* the caller gets the result of the call it made: it returns the record when the
\* record has a media URL, it is left by an exception, else its loop goes on
SearchDeliver ==
    /\ returning # Pending
    /\ callStack # <<>>
    /\ UNCHANGED <<heap, searchRoot, visited, deepest>>
    /\ IF returning \in {Thrown, Overflow} \/ Keeps(returning)
       THEN callStack' = Popped /\ UNCHANGED returning
       ELSE /\ callStack' = [callStack EXCEPT ![Len(callStack)].i = @ + 1]
            /\ returning' = Pending

\* the loop has run through every key: return null
SearchExhausted ==
    /\ returning = Pending
    /\ callStack # <<>>
    /\ Top.i > Len(Children(Top.obj))
    /\ callStack' = Popped
    /\ returning' = NoMatch
    /\ UNCHANGED <<heap, searchRoot, visited, deepest>>

(***************************************************************************)
(* GET /api/proxy.  The handler awaits axios.get(normalizedUrl, stream),   *)
(* sets three headers and pipes the upstream body into the response; after  *)
(* that only the events of the two streams run.                            *)
(***************************************************************************)
VARIABLES
    proxyPc,       \* "idle", "awaiting" (axios.get pending), "relaying" (pipe set up),
                   \* "done" (the response was ended), "broken" (upstream stream failed)
    queryUrl,      \* const { url } = req.query
    upstreamUrl,   \* normalizedUrl, "" while nothing was requested
    upstreamReqs,  \* requests issued to the upstream
    upstream,      \* the upstream request: "none", "pending", "rejected" (axios.get
                   \* threw), "open" (headers arrived, body streaming), "ended",
                   \* "errored" (the body stream failed)
    upstreamHdrs,  \* response.headers of the upstream response
    resStatus,     \* res.statusCode as sent to the caller, 0 while nothing was sent
    resHeaders,    \* what res.setHeader has set
    resError,      \* the error text of a JSON answer, "" when none
    headersSent,   \* res.headersSent
    bytesOut,      \* chunks of the upstream body written to the caller
    resEnded,      \* res.end() was called: the caller's response is complete
    crashed        \* an 'error' event nobody listens to reached the process

proxyVars == <<proxyPc, queryUrl, upstreamUrl, upstreamReqs, upstream, upstreamHdrs, resStatus,
               resHeaders, resError, headersSent, bytesOut, resEnded, crashed>>

\* req.query.url: absent, empty, repeated (?url=a&url=b), nested (?url[k]=v), text
Queries == <<
    Undef,
    Str(""),
    Arr(<<Str("https://a.example/1.mp4"), Str("https://b.example/2.mp4")>>),
    Obj(<< <<"k", Str("v")>> >>),
    Str("https://www.douyin.com/aweme/v1/play/?video_id=v0200"),
    Str("https://v26-web.douyinvod.com/aa/video/tos/1.mp4"),
    Str("https://api-h2.amemv.com/aweme/v1/play/?video_id=v0300"),
    Str("https://cdn.example/clips/holiday.mov"),
    Str("not a url") >>

\* the header values of an upstream response: absent, empty or a value
ContentTypes == <<Undef, Str(""), Str("video/mp4"), Str("video/quicktime")>>

ContentLengths == <<Undef, Str("0"), Str("1048576")>>

NoHeaders == [contentType |-> Undef, contentDisposition |-> Undef, contentLength |-> Undef]

\* what axios.get(normalizedUrl, { responseType: 'stream' }) ends with: a 2xx
\* response whose headers have arrived, or a rejection (no response, a timeout, a
\* status outside 2xx)
UpstreamOutcomes ==
    [kind : {"fault"}, status : {0, 403, 404}, ct : {1}, cl : {1}]
    \cup [kind : {"ok"}, status : {200, 206}, ct : 1..Len(ContentTypes),
          cl : 1..Len(ContentLengths)]

\* how many chunks an upstream body has at most
MaxChunks == 2

\* what becomes of an 'error' event of the upstream stream: the handler listens to
\* none, so it either reaches the process as an uncaught exception or is taken by
\* a listener of the HTTP client library
StreamErrorOutcomes == {"uncaught", "swallowed"}

ProxyIdle ==
    /\ proxyPc = "idle"
    /\ queryUrl = Undef
    /\ upstreamUrl = ""
    /\ upstreamReqs = 0
    /\ upstream = "none"
    /\ upstreamHdrs = NoHeaders
    /\ resStatus = 0
    /\ resHeaders = NoHeaders
    /\ resError = ""
    /\ headersSent = FALSE
    /\ bytesOut = 0
    /\ resEnded = FALSE
    /\ crashed = FALSE

\* res.status(status).json({ error }): status line, headers and body go out at once
ProxyJson(status, error) ==
    /\ resStatus' = status
    /\ resError' = error
    /\ headersSent' = TRUE
    /\ resEnded' = TRUE
    /\ proxyPc' = "done"
    /\ UNCHANGED <<resHeaders, bytesOut, crashed>>

\* GET /api/proxy arrives: the input check, normalizeVideoUrl and axios.get
ProxyReceive(url) ==
    /\ proxyPc = "idle"
    /\ queryUrl' = url
    /\ IF ~Truthy(url) \/ ~IsStr(url)
       THEN /\ ProxyJson(400, "URL parameter is required")
            /\ UNCHANGED <<upstreamUrl, upstreamReqs, upstream, upstreamHdrs>>
       ELSE /\ upstreamUrl' = normalizeVideoUrl(url.s)
            /\ upstreamReqs' = upstreamReqs + 1
            /\ upstream' = "pending"
            /\ proxyPc' = "awaiting"
            /\ UNCHANGED <<upstreamHdrs, resStatus, resHeaders, resError, headersSent,
                           bytesOut, resEnded, crashed>>

\* the Content-Type forwarded as it came, with no default
ContentTypeAsIs(hdrs) == hdrs.contentType

\* response.headers['content-type'] || 'video/mp4'
ContentTypeOf(hdrs) == OrElse(hdrs.contentType, Str("video/mp4"))

\* the three res.setHeader calls
ForwardedHeaders(hdrs) ==
    [contentType |-> ContentTypeOf(hdrs),
     contentDisposition |-> Str("attachment; filename=\"douyin_video.mp4\""),
     contentLength |-> IF Truthy(hdrs.contentLength) THEN hdrs.contentLength ELSE Undef]

\* axios.get settles: on a rejection the catch block answers 500; on a response
\* the headers are set and response.data.pipe(res) is set up
ProxyUpstream(r) ==
    /\ proxyPc = "awaiting"
    /\ IsHttpUrl(upstreamUrl) \/ (r.kind = "fault" /\ r.status = 0)
    /\ UNCHANGED <<queryUrl, upstreamUrl, upstreamReqs>>
    /\ IF r.kind = "fault"
       THEN ProxyJson(500, "download failed") /\ upstream' = "rejected"
                                              /\ UNCHANGED upstreamHdrs
       ELSE /\ upstream' = "open"
            /\ upstreamHdrs' = [NoHeaders EXCEPT !.contentType = ContentTypes[r.ct],
                                                 !.contentLength = ContentLengths[r.cl]]
            /\ resHeaders' = ForwardedHeaders(upstreamHdrs')
            /\ proxyPc' = "relaying"
            /\ UNCHANGED <<resStatus, resError, headersSent, bytesOut, resEnded, crashed>>

\* a 'data' event of the upstream stream: pipe writes the chunk to res; the first
\* write sends the status line and the headers
RelayChunk ==
    /\ proxyPc = "relaying"
    /\ bytesOut < MaxChunks
    /\ bytesOut' = bytesOut + 1
    /\ headersSent' = TRUE
    /\ resStatus' = 200
    /\ UNCHANGED <<proxyPc, queryUrl, upstreamUrl, upstreamReqs, upstream, upstreamHdrs,
                   resHeaders, resError, resEnded, crashed>>

\* the 'end' event of the upstream stream: pipe calls res.end()
UpstreamEnd ==
    /\ proxyPc = "relaying"
    /\ headersSent' = TRUE
    /\ resStatus' = 200
    /\ resEnded' = TRUE
    /\ upstream' = "ended"
    /\ proxyPc' = "done"
    /\ UNCHANGED <<queryUrl, upstreamUrl, upstreamReqs, upstreamHdrs, resHeaders, resError,
                   bytesOut, crashed>>

\* an 'error' event of the upstream stream after axios.get has resolved: the await
\* is over, so the catch block does not run; pipe unpipes and leaves res as it is
UpstreamError(outcome) ==
    /\ proxyPc = "relaying"
    /\ proxyPc' = "broken"
    /\ upstream' = "errored"
    /\ crashed' = (outcome = "uncaught")
    /\ UNCHANGED <<queryUrl, upstreamUrl, upstreamReqs, upstreamHdrs, resStatus, resHeaders,
                   resError, headersSent, bytesOut, resEnded>>

(***************************************************************************)
(* extractVideoId on its own.  The URL is put together from fragments that *)
(* hold the three patterns, digits and other text, so that a URL can match *)
(* several patterns in any order, or a pattern without a digit after it.   *)
(***************************************************************************)
VARIABLES
    idPc,          \* "idle", "called", "returned"
    idUrl,         \* the argument of extractVideoId
    idResult       \* what it returned; "" stands for null

extractVars == <<idPc, idUrl, idResult>>

IdFragments == {"/video/7", "/note/12", "modal_id=3", "/video/", "/note/", "modal_id=", "1", "x"}

\* how many fragments a URL is made of at most
MaxIdFragments == 3

IdUrls ==
    UNION {{Join(q, 1) : q \in [1..n -> IdFragments]} : n \in 0..MaxIdFragments}

ExtractIdle == idPc = "idle" /\ idUrl = "" /\ idResult = ""

ExtractInit == idPc = "called" /\ idUrl \in IdUrls /\ idResult = ""

\* extractVideoId(url) runs and returns
ExtractReturn ==
    /\ idPc = "called"
    /\ idResult' = extractVideoId(idUrl)
    /\ idPc' = "returned"
    /\ UNCHANGED idUrl

(***************************************************************************)
(* The client (App.tsx): the input field, one parse request at a time, the *)
(* result, and the history kept in React state and in local storage.       *)
(* A VideoData record is [url, desc]; media URLs are numbered.  The        *)
(* handlers of a render see the history of that render: handleParse saves  *)
(* into the history it was created with, whatever happened to the state    *)
(* while its request was awaited.                                          *)
(***************************************************************************)
VARIABLES
    inputUrl,      \* useState: the text of the input field
    loading,       \* useState
    videoData,     \* useState: Null or a VideoData record
    error,         \* useState: Null or Str(message)
    history,       \* useState: the list of VideoData records
    stored,        \* localStorage['douyin_history']: Undef when absent, else the saved list
    fetching,      \* a handleParse run waits for fetch or for response.json()
    closure,       \* the history the running handleParse was created with
    fresh,         \* how many different media URLs the server has answered with
    resaves        \* how many times the server has answered with a media URL of the history

clientVars ==
    <<inputUrl, loading, videoData, error, history, stored, fetching, closure, fresh, resaves>>

\* .slice(0, 20)
HistoryLimit == 20

\* how many different media URLs the server answers with at most
MaxUrls == 21

\* how many times the server answers with a media URL of the history at most
MaxResaves == 1

InputTexts == {"", " \t", "https://v.douyin.com/iAbC/"}

\* !inputUrl.trim()
IsBlank(s) == \A i \in 1..Len(s) : Ch(s, i) \in WhiteSpace

VideoData(u, d) == [url |-> u, desc |-> d]

\* the App component after its mount effect, with nothing in local storage
ClientInit ==
    /\ inputUrl = ""
    /\ loading = FALSE
    /\ videoData = Null
    /\ error = Null
    /\ history = <<>>
    /\ stored = Undef
    /\ fetching = FALSE
    /\ closure = <<>>
    /\ fresh = 0
    /\ resaves = 0

\* the new list without the filter that drops the old entry of the same url
NewHistoryUnfiltered(data, h) ==
    SubSeq(<<data>> \o h, 1, IF Len(h) + 1 < HistoryLimit THEN Len(h) + 1 ELSE HistoryLimit)

\* [data, ...history.filter(h => h.url !== data.url)].slice(0, 20)
NewHistory(data, h) ==
    LET Other(e) == e.url # data.url
        all == <<data>> \o SelectSeq(h, Other)
    IN  SubSeq(all, 1, IF Len(all) < HistoryLimit THEN Len(all) ELSE HistoryLimit)

\* saveToHistory(data) of the render whose history is h
saveToHistory(data, h) ==
    /\ history' = NewHistory(data, h)
    /\ stored' = NewHistory(data, h)

\* onChange of the input field, or handlePaste
SetInputUrl(text) ==
    /\ inputUrl' = text
    /\ UNCHANGED <<loading, videoData, error, history, stored, fetching, closure, fresh, resaves>>

\* clearHistory, from the button shown while the history is not empty
clearHistory ==
    /\ history # <<>>
    /\ history' = <<>>
    /\ stored' = Undef
    /\ UNCHANGED <<inputUrl, loading, videoData, error, fetching, closure, fresh, resaves>>

\* handleParse up to its await fetch: the button is disabled while loading or
\* while the input is blank, and the handler returns at once on a blank input
handleParse ==
    /\ ~loading
    /\ ~IsBlank(inputUrl)
    /\ ~fetching
    /\ loading' = TRUE
    /\ error' = Null
    /\ videoData' = Null
    /\ fetching' = TRUE
    /\ closure' = history
    /\ UNCHANGED <<inputUrl, history, stored, fresh, resaves>>

\* what the request of handleParse ends with: a JSON body with success = true
\* and a record (a media URL never seen, or the one of the first or of the last
\* entry of the history with another description), a JSON body without
\* success and with or without a message, a body that is not JSON, no response
ClientOutcomes ==
    [kind : {"success"}, data : {"new", "first", "last"}, error : {""}]
    \cup [kind : {"failure"}, data : {"none"}, error : {"", "no video id"}]
    \cup [kind : {"notJson", "fault"}, data : {"none"}, error : {""}]

\* data.data of a success body
DataOf(r) ==
    CASE r.data = "new" -> VideoData(fresh + 1, "a")
      [] r.data = "first" -> VideoData(history[1].url, "b")
      [] r.data = "last" -> VideoData(history[Len(history)].url, "b")

\* the message shown as it came, with no default text
ErrorTextAsSent(r) == Str(r.error)

\* data.error || default text; the fixed text of the catch block
ErrorText(r) ==
    IF r.kind = "failure" THEN OrElse(Str(r.error), Str("parse failed"))
    ELSE Str("network request failed")

\* the rest of handleParse: the branches on data.success, the catch block, and
\* setLoading(false) of the finally block
ClientResponse(r) ==
    /\ fetching
    /\ r.kind = "success" =>
            /\ r.data = "new" => fresh < MaxUrls
            /\ r.data \in {"first", "last"} => history # <<>> /\ resaves < MaxResaves
    /\ fetching' = FALSE
    /\ loading' = FALSE
    /\ IF r.kind = "success"
       THEN /\ videoData' = DataOf(r)
            /\ saveToHistory(DataOf(r), closure)
            /\ fresh' = IF r.data = "new" THEN fresh + 1 ELSE fresh
            /\ resaves' = IF r.data = "new" THEN resaves ELSE resaves + 1
            /\ UNCHANGED error
       ELSE /\ error' = ErrorText(r)
            /\ UNCHANGED <<videoData, history, stored, fresh, resaves>>
    /\ UNCHANGED <<inputUrl, closure>>

(***************************************************************************)
(* Several requests in flight.  Node runs one continuation at a time: the  *)
(* variables above are the local variables of the handler invocation that  *)
(* is running, and every other invocation waits at an await with its own   *)
(* copies of them.  Everything declared at module level is a constant      *)
(* (the user agents, DOMAIN_REPLACEMENTS, the app).                         *)
(***************************************************************************)
VARIABLES
    running,       \* the invocation whose continuation runs
    suspended      \* the local variables of the invocations waiting at an await

concVars == <<running, suspended>>

\* how many requests are in flight at most
MaxCalls == 2

CallIds == 1..MaxCalls

\* the local variables of the running invocation: const { url }, targetUrl,
\* videoSrc, coverSrc, desc, ... of the parse handler, currentUrl and i of
\* resolveShortUrl, normalizedUrl, response, res of the proxy handler
Frame ==
    [reqUrl |-> reqUrl, pc |-> pc, targetUrl |-> targetUrl, currentUrl |-> currentUrl,
     hops |-> hops, manualEnd |-> manualEnd, exit |-> exit, finalUrl |-> finalUrl,
     videoId |-> videoId, videoSrc |-> videoSrc, coverSrc |-> coverSrc, desc |-> desc,
     response |-> response, sent |-> sent, manualReqs |-> manualReqs,
     fallbackReqs |-> fallbackReqs, fallbackUrl |-> fallbackUrl, requested |-> requested, stratReqs |-> stratReqs,
     proxyPc |-> proxyPc, queryUrl |-> queryUrl, upstreamUrl |-> upstreamUrl,
     upstreamReqs |-> upstreamReqs, upstream |-> upstream, upstreamHdrs |-> upstreamHdrs,
     resStatus |-> resStatus, resHeaders |-> resHeaders, resError |-> resError,
     headersSent |-> headersSent, bytesOut |-> bytesOut, resEnded |-> resEnded,
     crashed |-> crashed]

\* the local variables of an invocation that has not started
IdleFrame ==
    [reqUrl |-> Undef, pc |-> "idle", targetUrl |-> "", currentUrl |-> "", hops |-> 0,
     manualEnd |-> "none", exit |-> "none", finalUrl |-> "", videoId |-> "",
     videoSrc |-> Str(""), coverSrc |-> Str(""), desc |-> Str(""), response |-> NoResponse,
     sent |-> 0, manualReqs |-> 0, fallbackReqs |-> 0, fallbackUrl |-> "",
     requested |-> {},
     stratReqs |-> [n \in Strategies |-> 0], proxyPc |-> "idle", queryUrl |-> Undef,
     upstreamUrl |-> "", upstreamReqs |-> 0, upstream |-> "none", upstreamHdrs |-> NoHeaders,
     resStatus |-> 0, resHeaders |-> NoHeaders, resError |-> "", headersSent |-> FALSE,
     bytesOut |-> 0, resEnded |-> FALSE, crashed |-> FALSE]

ConcIdle == running = 1 /\ suspended = [c \in CallIds |-> IdleFrame]

\* the continuation that runs next sees videoSrc, coverSrc and desc of whoever ran
\* last, as if the three were declared once at module level
LoadSharingMedia(f) ==
    /\ reqUrl' = f.reqUrl
    /\ pc' = f.pc
    /\ targetUrl' = f.targetUrl
    /\ currentUrl' = f.currentUrl
    /\ hops' = f.hops
    /\ manualEnd' = f.manualEnd
    /\ exit' = f.exit
    /\ finalUrl' = f.finalUrl
    /\ videoId' = f.videoId
    /\ videoSrc' = videoSrc
    /\ coverSrc' = coverSrc
    /\ desc' = desc
    /\ response' = f.response
    /\ sent' = f.sent
    /\ manualReqs' = f.manualReqs
    /\ fallbackReqs' = f.fallbackReqs
    /\ fallbackUrl' = f.fallbackUrl
    /\ requested' = f.requested
    /\ stratReqs' = f.stratReqs
    /\ proxyPc' = f.proxyPc
    /\ queryUrl' = f.queryUrl
    /\ upstreamUrl' = f.upstreamUrl
    /\ upstreamReqs' = f.upstreamReqs
    /\ upstream' = f.upstream
    /\ upstreamHdrs' = f.upstreamHdrs
    /\ resStatus' = f.resStatus
    /\ resHeaders' = f.resHeaders
    /\ resError' = f.resError
    /\ headersSent' = f.headersSent
    /\ bytesOut' = f.bytesOut
    /\ resEnded' = f.resEnded
    /\ crashed' = f.crashed

\* the continuation of an invocation runs with the local variables it was
\* suspended with
Load(f) ==
    /\ reqUrl' = f.reqUrl
    /\ pc' = f.pc
    /\ targetUrl' = f.targetUrl
    /\ currentUrl' = f.currentUrl
    /\ hops' = f.hops
    /\ manualEnd' = f.manualEnd
    /\ exit' = f.exit
    /\ finalUrl' = f.finalUrl
    /\ videoId' = f.videoId
    /\ videoSrc' = f.videoSrc
    /\ coverSrc' = f.coverSrc
    /\ desc' = f.desc
    /\ response' = f.response
    /\ sent' = f.sent
    /\ manualReqs' = f.manualReqs
    /\ fallbackReqs' = f.fallbackReqs
    /\ fallbackUrl' = f.fallbackUrl
    /\ requested' = f.requested
    /\ stratReqs' = f.stratReqs
    /\ proxyPc' = f.proxyPc
    /\ queryUrl' = f.queryUrl
    /\ upstreamUrl' = f.upstreamUrl
    /\ upstreamReqs' = f.upstreamReqs
    /\ upstream' = f.upstream
    /\ upstreamHdrs' = f.upstreamHdrs
    /\ resStatus' = f.resStatus
    /\ resHeaders' = f.resHeaders
    /\ resError' = f.resError
    /\ headersSent' = f.headersSent
    /\ bytesOut' = f.bytesOut
    /\ resEnded' = f.resEnded
    /\ crashed' = f.crashed

\* the response another invocation waits for arrives: the running one stays at
\* its await, the continuation of invocation c runs next
Resume(c) ==
    /\ c # running
    /\ ~crashed
    /\ running' = c
    /\ suspended' = [suspended EXCEPT ![running] = Frame, ![c] = IdleFrame]
    /\ Load(suspended[c])

\* the requests and responses of the runs with several requests in flight: a
\* short link, a fault at the first hop and a fallback that ends at the video
\* page, a detail API that fails or answers, a mobile page that fails or holds
\* an mp4 link, a probe that fails or answers 200, a proxy query without url or
\* with a CDN URL, an upstream that fails or streams
ConcCases ==
    [inputs |-> {4},
     manual |-> {r \in ManualOutcomes : r.kind = "neterr"},
     fallback |-> {r \in FallbackOutcomes :
                    r.kind = "ok" /\ r.respUrl = "https://www.douyin.com/video/7123"},
     api |-> {1, 5},
     mobile |-> {1, 3},
     probe |-> {r \in ProbeOutcomes : r.status \in {0, 200}},
     queries |-> {1, 6},
     upstream |-> {r \in UpstreamOutcomes : r.status \in {0, 200} /\ r.ct = 4 /\ r.cl = 3}]

(***************************************************************************)
(* Specifications.  Each one runs one part of the server and leaves the    *)
(* variables of the other parts at their idle values.                      *)
(***************************************************************************)
allVars == <<vars, normVars, searchVars, proxyVars, concVars, extractVars, clientVars>>

\* one POST /api/parse request
Next ==
    \/ \E k \in 1..Len(Inputs) : Receive(Inputs[k]) /\ UNCHANGED <<normVars, searchVars, proxyVars, concVars, extractVars, clientVars>>
    \/ \E r \in ManualOutcomes : ManualResponse(r) /\ UNCHANGED <<normVars, searchVars, proxyVars, concVars, extractVars, clientVars>>
    \/ \E r \in FallbackOutcomes : FallbackResponse(r) /\ UNCHANGED <<normVars, searchVars, proxyVars, concVars, extractVars, clientVars>>
    \/ \E k \in 1..Len(ApiOutcomes) : Strategy1Response(ApiOutcomes[k]) /\ UNCHANGED <<normVars, searchVars, proxyVars, concVars, extractVars, clientVars>>
    \/ \E k \in 1..Len(PageOutcomes) : Strategy2Response(PageOutcomes[k]) /\ UNCHANGED <<normVars, searchVars, proxyVars, concVars, extractVars, clientVars>>
    \/ \E k \in 1..Len(MobileOutcomes) : Strategy3Response(MobileOutcomes[k]) /\ UNCHANGED <<normVars, searchVars, proxyVars, concVars, extractVars, clientVars>>
    \/ \E k \in 1..Len(ItemInfoOutcomes) : Strategy4Response(ItemInfoOutcomes[k]) /\ UNCHANGED <<normVars, searchVars, proxyVars, concVars, extractVars, clientVars>>
    \/ \E r \in ProbeOutcomes : Strategy5Response(r) /\ UNCHANGED <<normVars, searchVars, proxyVars, concVars, extractVars, clientVars>>

\* no request is in progress in any part of the server
SpecInit == Init /\ NormIdle /\ SearchIdle /\ ProxyIdle /\ ConcIdle /\ ExtractIdle /\ ClientInit

Spec == SpecInit /\ [][Next]_allVars

\* a media URL on its way through both handlers
\* the request the handler waits for runs into its timeout (every axios call of
\* the handler sets one, 10 or 15 s): the await ends with a fault
Timeout ==
    /\ \/ ManualResponse([kind |-> "neterr", status |-> 0, location |-> "", respUrl |-> ""])
       \/ FallbackResponse([kind |-> "fault", respUrl |-> "", location |-> ""])
       \/ Strategy1Response(ApiOutcomes[1])
       \/ Strategy2Response(PageOutcomes[1])
       \/ Strategy3Response(MobileOutcomes[1])
       \/ Strategy4Response(ItemInfoOutcomes[1])
       \/ Strategy5Response([kind |-> "fault", status |-> 0])
    /\ UNCHANGED <<normVars, searchVars, proxyVars, concVars, extractVars, clientVars>>

\* one request to POST /api/parse whose awaits all end: no request of the
\* handler stays pending for ever
FairSpec == SpecInit /\ [][Next]_allVars /\ WF_allVars(Timeout)

NormNext ==
    \/ NormalizeOnce /\ UNCHANGED <<vars, searchVars, proxyVars, concVars, extractVars, clientVars>>
    \/ NormalizeAgain /\ UNCHANGED <<vars, searchVars, proxyVars, concVars, extractVars, clientVars>>

NormSpecInit == Init /\ NormInit /\ SearchIdle /\ ProxyIdle /\ ConcIdle /\ ExtractIdle /\ ClientInit

NormSpec == NormSpecInit /\ [][NormNext]_allVars

\* one call of findVideoInObject
SearchNext ==
    \/ SearchEnter /\ UNCHANGED <<vars, normVars, proxyVars, concVars, extractVars, clientVars>>
    \/ SearchDeliver /\ UNCHANGED <<vars, normVars, proxyVars, concVars, extractVars, clientVars>>
    \/ SearchExhausted /\ UNCHANGED <<vars, normVars, proxyVars, concVars, extractVars, clientVars>>

SearchSpecInit == Init /\ NormIdle /\ SearchInit /\ ProxyIdle /\ ConcIdle /\ ExtractIdle /\ ClientInit

SearchSpec == SearchSpecInit /\ [][SearchNext]_allVars

\* one GET /api/proxy request
ProxyNext ==
    \/ \E k \in 1..Len(Queries) : ProxyReceive(Queries[k]) /\ UNCHANGED <<vars, normVars, searchVars, concVars, extractVars, clientVars>>
    \/ \E r \in UpstreamOutcomes : ProxyUpstream(r) /\ UNCHANGED <<vars, normVars, searchVars, concVars, extractVars, clientVars>>
    \/ RelayChunk /\ UNCHANGED <<vars, normVars, searchVars, concVars, extractVars, clientVars>>
    \/ UpstreamEnd /\ UNCHANGED <<vars, normVars, searchVars, concVars, extractVars, clientVars>>
    \/ \E o \in StreamErrorOutcomes : UpstreamError(o) /\ UNCHANGED <<vars, normVars, searchVars, concVars, extractVars, clientVars>>

ProxySpec == SpecInit /\ [][ProxyNext]_allVars

ExtractNext ==
    ExtractReturn /\ UNCHANGED <<vars, normVars, searchVars, proxyVars, concVars, clientVars>>

ExtractSpecInit ==
    Init /\ NormIdle /\ SearchIdle /\ ProxyIdle /\ ConcIdle /\ ExtractInit /\ ClientInit

ExtractSpec == ExtractSpecInit /\ [][ExtractNext]_allVars

\* the steps of the client leave the server alone
ServerUnchanged == UNCHANGED <<vars, normVars, searchVars, proxyVars, concVars, extractVars>>

ClientNext ==
    \/ \E t \in InputTexts : SetInputUrl(t) /\ ServerUnchanged
    \/ handleParse /\ ServerUnchanged
    \/ \E r \in ClientOutcomes : ClientResponse(r) /\ ServerUnchanged
    \/ clearHistory /\ ServerUnchanged

ClientSpec == SpecInit /\ [][ClientNext]_allVars

\* the step of a parse invocation leaves the proxy variables of its frame alone
ParseStep == UNCHANGED <<proxyVars, normVars, searchVars, concVars, extractVars, clientVars>>

\* the step of a proxy invocation leaves the parse variables of its frame alone
ProxyStep == UNCHANGED <<vars, normVars, searchVars, concVars, extractVars, clientVars>>

\* up to MaxCalls requests of either kind, their continuations interleaved at
\* every await
ConcNext ==
    \/ \E c \in CallIds : Resume(c) /\ UNCHANGED <<normVars, searchVars, extractVars, clientVars>>
    \/ \E k \in ConcCases.inputs : proxyPc = "idle" /\ Receive(Inputs[k]) /\ ParseStep
    \/ \E r \in ConcCases.manual : ManualResponse(r) /\ ParseStep
    \/ \E r \in ConcCases.fallback : FallbackResponse(r) /\ ParseStep
    \/ \E k \in ConcCases.api : Strategy1Response(ApiOutcomes[k]) /\ ParseStep
    \/ Strategy2Response(PageOutcomes[1]) /\ ParseStep
    \/ \E k \in ConcCases.mobile : Strategy3Response(MobileOutcomes[k]) /\ ParseStep
    \/ Strategy4Response(ItemInfoOutcomes[1]) /\ ParseStep
    \/ \E r \in ConcCases.probe : Strategy5Response(r) /\ ParseStep
    \/ \E k \in ConcCases.queries : pc = "idle" /\ ProxyReceive(Queries[k]) /\ ProxyStep
    \/ \E r \in ConcCases.upstream : ProxyUpstream(r) /\ ProxyStep
    \/ RelayChunk /\ ProxyStep
    \/ UpstreamEnd /\ ProxyStep
    \/ \E o \in StreamErrorOutcomes : UpstreamError(o) /\ ProxyStep

ConcSpec == SpecInit /\ [][ConcNext]_allVars

(***************************************************************************)
(* Properties.                                                             *)
(***************************************************************************)
\* resolveShortUrl has returned to the handler
ResolverReturned == exit \in {"direct", "terminal", "redirect", "fallback", "fallbackFault"}

\* the URL holds one of the three identifier patterns, stated on the text alone
HasIdPattern(u) ==
    \E p \in {"/video/", "/note/", "modal_id="} :
        \E i \in 1..Len(u) : OccursAt(u, p, i) /\ i + Len(p) <= Len(u)
                                /\ Ch(u, i + Len(p)) \in Digits

\* the pattern pat matches somewhere in s
Matches(s, pat) == \E i \in 1..Len(s) : MatchEnd(pat, s, i) > 0

\* some host pattern of the table matches somewhere in url
HasBlockedHost(url) ==
    \E k \in 1..Len(DOMAIN_REPLACEMENTS) : Matches(url, DOMAIN_REPLACEMENTS[k][1])

\* C1: the strategies run strictly in the order 1..5, each at most once and only
\* while no media URL has been found; the step in which a strategy sets a media
\* URL issues no further strategy request and ends the handler, and a success
\* answer carries the values that strategy left (URL normalized, description
\* defaulted).
C1_StrategiesInOrder ==
    /\ [](\A n \in Strategies :
            /\ stratReqs[n] <= 1
            /\ (n > 1 /\ stratReqs[n] = 1 => stratReqs[n - 1] = 1)
            /\ (pc = StrategyPc[n] =>
                    /\ ~Truthy(videoSrc)
                    /\ stratReqs[n] = 1
                    /\ \A m \in Strategies : m > n => stratReqs[m] = 0))
    /\ [][Truthy(videoSrc') =>
            /\ stratReqs' = stratReqs
            /\ pc' = "done"
            /\ (IsStr(videoSrc') =>
                    /\ response'.success = "true"
                    /\ response'.url = normalizeVideoUrl(videoSrc'.s)
                    /\ response'.cover = coverSrc'
                    /\ response'.desc = OrElse(desc', Str(DefaultDesc)))]_vars

\* C1 witness: strategy 1 gave nothing, strategy 2 gave the media URL, strategies
\* 3 to 5 were never requested
C1_Witness ==
    /\ pc = "done"
    /\ response.success = "true"
    /\ stratReqs = <<1, 1, 0, 0, 0>>

\* every strategy was tried for an identifier and none gave a media URL
AllStrategiesFailed ==
    /\ pc = "done"
    /\ ResolverReturned
    /\ videoId # ""
    /\ \A n \in Strategies : stratReqs[n] = 1
    /\ ~Truthy(videoSrc)

C3_NoIdentifierIsTerminal ==
    (ResolverReturned /\ videoId = "") =>
        /\ pc = "done"
        /\ response.status = 400
        /\ response.error = "no video id"
        /\ response.success = "none"
        /\ \A n \in Strategies : stratReqs[n] = 0

\* C3 witness: the fallback ended at a page without an identifier
C3_Witness ==
    /\ exit = "fallback"
    /\ videoId = ""
    /\ finalUrl = "https://www.douyin.com/home"
    /\ pc = "done"

\* C4 as claimed: once the strategies run, nothing one of them reads (a fault, a
\* missing or wrongly typed field) leads to a server-error answer.
C4_StrategyFaultNeverServerError ==
    (ResolverReturned /\ videoId # "" /\ pc = "done") => response.status # 500

\* C5: in every success answer the media URL is a non-empty string, and when no
\* strategy found a media URL the answer is not a success.
C5_SuccessHasMediaUrl ==
    /\ response.success = "true" =>
            /\ IsStr(videoSrc)
            /\ videoSrc.s # ""
            /\ response.url # ""
    /\ (pc = "done" /\ ~Truthy(videoSrc)) => response.success # "true"

\* C5 witness: the last strategy alone gave the media URL
C5_Witness ==
    /\ response.success = "true"
    /\ stratReqs[5] = 1
    /\ response.url = CdnUrl(videoId)

\* C6: an input URL that holds an identifier pattern is answered by
\* resolveShortUrl with that identifier and finalUrl equal to the input, and no
\* request of the resolver is ever issued.
C6_DirectIdentifierNoRequest ==
    (targetUrl # "" /\ HasIdPattern(targetUrl)) =>
        /\ exit = "direct"
        /\ finalUrl = targetUrl
        /\ videoId # ""
        /\ videoId \in {DigitsAfter(targetUrl, p) : p \in {"/video/", "/note/", "modal_id="}}
        /\ manualReqs = 0
        /\ fallbackReqs = 0
        /\ requested = {}

\* C6 witness: the input names its identifier in the query string
C6_Witness ==
    /\ targetUrl = "https://www.douyin.com/jingxuan?modal_id=9"
    /\ videoId = "9"
    /\ pc = "done"

\* C7: no request of the manual loop goes to a URL that holds an identifier; when
\* the k-th redirect (1 <= k <= 10) is the first to name a URL with an identifier,
\* resolveShortUrl returns that URL and its identifier after exactly k manual
\* requests, without requesting that URL and without the fallback.
C7_IdentifierAtLastHop ==
    /\ \A u \in requested : ~HasIdPattern(u)
    /\ exit = "redirect" =>
            /\ manualEnd = "found"
            /\ manualReqs = hops + 1
            /\ manualReqs >= 1
            /\ manualReqs <= 10
            /\ fallbackReqs = 0
            /\ HasIdPattern(finalUrl)
            /\ videoId = extractVideoId(finalUrl)
            /\ videoId # ""
            /\ finalUrl \notin requested

\* C7 witness: the tenth redirect is the first to name the identifier
C7_Witness ==
    /\ exit = "redirect"
    /\ manualReqs = 10
    /\ videoId = "88"

\* C8: the manual loop issues at most 10 requests; when ten redirects in a row
\* name no identifier the loop ends without raising and the fallback request is
\* issued exactly once.
C8_HopBound ==
    /\ manualReqs <= 10
    /\ fallbackReqs <= 1
    /\ hops = MaxHops =>
            /\ manualEnd = "bound"
            /\ manualReqs = 10
            /\ fallbackReqs = 1
            /\ exit # "raised"
            /\ pc # "manual"

\* C8 witness: the loop ran out and the fallback has been answered
C8_Witness ==
    /\ manualEnd = "bound"
    /\ hops = MaxHops
    /\ exit = "fallbackFault"

\* the manual loop ended and no identifier came out of it
ManualEndedWithoutId ==
    \/ manualEnd \in {"bound", "fault", "noLocation"}
    \/ manualEnd = "terminal" /\ videoId = ""

\* C9 as claimed: whenever the manual loop ends without an identifier, for
\* whatever reason, the single fallback request has been issued.
C9_FallbackAlways == ManualEndedWithoutId => fallbackReqs = 1

\* C9 amended: when the manual loop ends at the hop bound, on a fault at a hop or
\* on a redirect without Location, the single fallback request is issued before
\* resolveShortUrl returns; after a non-redirect response whose URLs hold no
\* identifier it returns { finalUrl: currentUrl, videoId: null } at once and the
\* fallback is never issued.
C9_FallbackUnlessTerminal ==
    /\ manualEnd \in {"bound", "fault", "noLocation"} =>
            /\ fallbackReqs = 1
            /\ targetUrl \in requested
            /\ pc = "fallback" \/ exit \in {"fallback", "fallbackFault"}
    /\ manualEnd = "terminal" =>
            /\ fallbackReqs = 0
            /\ exit = "terminal"
            /\ (videoId = "" => finalUrl = currentUrl /\ pc = "done" /\ response.status = 400)
    /\ exit \in {"fallback", "fallbackFault"} => manualEnd \in {"bound", "fault", "noLocation"}

\* C9 witness: a redirect without Location ended the loop at the third hop and
\* the fallback found the identifier
C9_Witness ==
    /\ manualEnd = "noLocation"
    /\ hops = 2
    /\ exit = "fallback"
    /\ videoId = "7123"

\* C10: the media URL of every success answer is the normalized form of the URL
\* the winning strategy left, and no host pattern of the rewrite table matches
\* anywhere in it.
C10_SuccessUrlNormalized ==
    response.success = "true" =>
        /\ ~HasBlockedHost(response.url)
        /\ \A h \in {"aweme.snssdk.com", "api-h2.amemv.com", "api.amemv.com"} :
                ~Includes(response.url, h)
        /\ HasBlockedHost(videoSrc.s) => Includes(response.url, "www.douyin.com")

\* C10 witness: the legacy item-info strategy won with a URL on a blocked host
C10_Witness ==
    /\ response.success = "true"
    /\ stratReqs[4] = 1
    /\ stratReqs[5] = 0
    /\ HasBlockedHost(videoSrc.s)
    /\ response.url = "https://www.douyin.com/play/playwm"

\* C11: normalizeVideoUrl is idempotent: after one application no pattern of the
\* table matches the result, whatever text surrounds a replacement and whatever an
\* earlier rule wrote, so the second application changes nothing.
C11_NormalizeIdempotent ==
    /\ normPc \in {"once", "twice"} => ~HasBlockedHost(normOnce)
    /\ normPc = "twice" => normTwice = normOnce

\* C11 witness: a replacement lands between the pieces of another rule's pattern
C11_Witness ==
    /\ normPc = "twice"
    /\ normUrl = "v1-aweme.snssdk.com.douyinvod.com"
    /\ normOnce = "v1-www.douyin.com.douyinvod.com"

\* the shape tests of one invocation on the value v: NoMatch for a value that is
\* no object
NodeResult(v) == IF Truthy(v) /\ IsObject(v) THEN ShapeAt(v) ELSE NoMatch

\* the object v passes one of the three shape tests
NodeMatches(v) ==
    /\ Truthy(v)
    /\ IsObject(v)
    /\ \/ Truthy(Get(v, "video")) /\ Truthy(Get(Get(v, "video"), "playApi"))
       \/ HasAddr(v, "play_addr")
       \/ HasAddr(v, "download_addr")

\* some node of the finite tree v passes a shape test
RECURSIVE SomeNodeMatches(_)
SomeNodeMatches(v) ==
    NodeMatches(v) \/ \E i \in 1..Len(Children(v)) : SomeNodeMatches(Children(v)[i])

\* the values of the finite tree v in depth-first pre-order, the children of a
\* node that passes a shape test left out
RECURSIVE PrunedPreorder(_)
RECURSIVE PrunedFrom(_, _)
PrunedFrom(cs, i) ==
    IF i > Len(cs) THEN <<>> ELSE PrunedPreorder(cs[i]) \o PrunedFrom(cs, i + 1)

PrunedPreorder(v) ==
    <<v>> \o (IF NodeMatches(v) THEN <<>> ELSE PrunedFrom(Children(v), 1))

\* the input of the search is a finite tree
FiniteTree == heap = <<>> /\ visited # <<>>

\* the last value findVideoInObject was called on
LastVisited == visited[Len(visited)]

\* the call-by-call search and the operator findVideoInObject agree on every tree
\* the call stack has room for
SearchAgrees ==
    (SearchDone /\ FiniteTree /\ returning # Overflow) =>
        returning = findVideoInObject(searchRoot)

\* C12 as claimed: on a finite tree the search returns a record when some node
\* matches one of the three shapes, at any depth and in any order of the keys, and
\* absent when no node matches.
C12_RecordIffSomeNodeMatches ==
    (SearchDone /\ FiniteTree) =>
        IF SomeNodeMatches(searchRoot) THEN IsFound(returning) ELSE returning = NoMatch

C14_NeverExhaustsStack == returning # Overflow

\* C15 as claimed: a media URL taken from a play-address source no longer contains
\* the watermark marker; stated for the legacy item-info strategy, whose only
\* source is play_addr.url_list[0].
C15_WatermarkMarkerRemoved ==
    (response.success = "true" /\ stratReqs[4] = 1 /\ stratReqs[5] = 0) =>
        /\ ~Includes(videoSrc.s, "playwm")
        /\ ~Includes(response.url, "playwm")

\* C16 as claimed: a request whose url is absent, empty or no text is answered
\* with a 4xx status by POST /api/parse and no request is issued for it.
C16_BadInputIsClientError ==
    (pc = "done" /\ (~IsStr(reqUrl) \/ reqUrl.s = "")) =>
        /\ response.status >= 400
        /\ response.status < 500
        /\ manualReqs = 0
        /\ fallbackReqs = 0
        /\ \A n \in Strategies : stratReqs[n] = 0

\* GET /api/proxy does answer such a request with 400 and requests nothing
ProxyRejectsBadInput ==
    (proxyPc # "idle" /\ (~IsStr(queryUrl) \/ queryUrl.s = "")) =>
        resStatus = 400 /\ upstreamReqs = 0 /\ resEnded

\* C17: once the upstream has answered with success, Content-Type is the upstream
\* type, or video/mp4 when the upstream has none; Content-Disposition is the fixed
\* attachment filename whatever URL was asked for; Content-Length is the upstream
\* value when there is one and is not set otherwise; all three are set while no
\* chunk has been relayed yet and are the same after every chunk.
C17_ProxyHeaders ==
    upstream \in {"open", "ended", "errored"} =>
        /\ resHeaders.contentType =
               (IF upstreamHdrs.contentType \in {Undef, Str("")} THEN Str("video/mp4")
                ELSE upstreamHdrs.contentType)
        /\ resHeaders.contentDisposition = Str("attachment; filename=\"douyin_video.mp4\"")
        /\ resHeaders.contentLength = upstreamHdrs.contentLength
        /\ headersSent => resStatus = 200
        /\ bytesOut > 0 => headersSent

\* C17 witness: a file with its own name and type was relayed to its end under
\* the fixed filename
C17_Witness ==
    /\ upstream = "ended"
    /\ queryUrl = Str("https://cdn.example/clips/holiday.mov")
    /\ upstreamHdrs.contentType = Str("video/quicktime")
    /\ resHeaders.contentLength = Str("1048576")
    /\ bytesOut = MaxChunks
    /\ resEnded

\* when axios.get itself rejects, the catch block answers 500 with the error text
\* and nothing of the media
ProxyRejectionIs500 ==
    upstream = "rejected" =>
        /\ resStatus = 500
        /\ resError # ""
        /\ resHeaders = NoHeaders
        /\ bytesOut = 0
        /\ resEnded

\* C18 as claimed: when the upstream fails while no response header has gone out
\* to the caller, the caller gets the 500 answer with the error text, no media
\* header and no media byte.
C18_FaultBeforeHeadersIs500 ==
    (upstream \in {"rejected", "errored"} /\ bytesOut = 0) =>
        /\ resStatus = 500
        /\ resError # ""
        /\ resHeaders = NoHeaders
        /\ resEnded

\* C19 as claimed: after a fault of the upstream stream in mid-relay the caller's
\* response is ended by the proxy (or a step that ends it is still to come) and
\* the fault does not leave the handler as an uncaught exception.
C19_MidStreamFaultEndsResponse ==
    (upstream = "errored" /\ headersSent) =>
        /\ ~crashed
        /\ resEnded \/ ENABLED (RelayChunk \/ UpstreamEnd)


\* what one invocation holds of its own request, whatever the others do: no media
\* URL while a strategy is awaited, the success answer made of its own videoSrc,
\* the upstream URL made of its own query
OwnRequestOnly(f) ==
    /\ f.pc \in {"s1", "s2", "s3", "s4", "s5"} => ~Truthy(f.videoSrc)
    /\ f.pc \in {"manual", "fallback"} =>
            /\ f.videoSrc = Str("")
            /\ f.videoId = ""
            /\ IsStr(f.reqUrl)
    /\ f.response.success = "true" =>
            /\ IsStr(f.videoSrc)
            /\ f.response.url = normalizeVideoUrl(f.videoSrc.s)
    /\ f.upstreamReqs = 1 =>
            /\ IsStr(f.queryUrl)
            /\ f.upstreamUrl = normalizeVideoUrl(f.queryUrl.s)
    /\ f.pc = "idle" \/ f.proxyPc = "idle"

PartialDesc(r) ==
    LET detail == IF r.kind = "fault" THEN Undef ELSE OptGet(r.data, "aweme_detail")
        res == IF Truthy(detail) THEN findVideoInObject(detail) ELSE NoMatch
    IN  IF IsFound(res) /\ ~Usable(res) /\ Truthy(res.desc) THEN res.desc ELSE Str("")

\* C21 as claimed: the description of a partial match of the first strategy (a
\* record with a description and no media URL) is held in desc after the
\* strategy, and no later step replaces a non-empty desc by an empty one.
C21_PartialDescriptionKept ==
    /\ [][\A k \in 1..Len(ApiOutcomes) :
            (Strategy1Response(ApiOutcomes[k]) /\ PartialDesc(ApiOutcomes[k]) # Str(""))
                => desc' = PartialDesc(ApiOutcomes[k])]_allVars
    /\ [][Truthy(desc) => desc' = desc]_allVars

\* how many requests the handler has issued for the strategies
RECURSIVE StrategyRequests(_)
StrategyRequests(n) == IF n = 0 THEN 0 ELSE stratReqs[n] + StrategyRequests(n - 1)

\* C22: one resolve call makes one pass: at most one request per iteration of
\* the manual loop (ten at most), at most one fallback request, at most one
\* request per strategy, so at most 11 + 5 requests, one answer at most, and
\* every call that has started reaches its answer.
C22_OnePass ==
    /\ [](/\ manualReqs <= MaxHops
          /\ manualReqs <= hops + 1
          /\ fallbackReqs <= 1
          /\ \A n \in Strategies : stratReqs[n] <= 1
          /\ manualReqs + fallbackReqs <= 11
          /\ StrategyRequests(5) <= 5
          /\ sent <= 1)
    /\ (pc # "idle") ~> (pc = "done" /\ sent = 1 /\ response # NoResponse)

\* C22 witness: ten hops, the fallback and all five strategies were requested
\* before the answer
C22_Witness ==
    /\ pc = "done"
    /\ manualReqs = 10
    /\ fallbackReqs = 1
    /\ StrategyRequests(5) = 5
    /\ sent = 1

\* C23 as claimed: whatever the hops and the fallback end with, resolveShortUrl
\* returns a result to the handler: once the handler is past the resolver it
\* holds { finalUrl, videoId }, and no answer given before the first strategy
\* is a server error.
C23_ResolverNeverRaises ==
    (IsStr(reqUrl) /\ Truthy(reqUrl) /\ pc \notin {"idle", "manual", "fallback"}) =>
        /\ ResolverReturned
        /\ (\A n \in Strategies : stratReqs[n] = 0) => response.status # 500

\* the embedded-data element of the page gives a record with a media URL
RenderYields(r) == r.render.m = "json" /\ Usable(findVideoInObject(r.render.v))

\* C24 as claimed: whenever the desktop page arrived and its embedded-data
\* element gave no record (absent, no shape matched, or decoding or parsing
\* failed), the strategy ends with what the scan of the inline scripts gives.
C24_ScriptsScannedAfterRenderFails ==
    [][\A k \in 1..Len(PageOutcomes) :
        (/\ Strategy2Response(PageOutcomes[k])
         /\ PageOutcomes[k].kind = "ok"
         /\ ~RenderYields(PageOutcomes[k]))
            => videoSrc' = ScanScripts(PageOutcomes[k].scripts, 1, Cur).videoSrc]_allVars

\* the places of u where the pattern p matches: the text p with a digit after it
PatternAt(u, p) ==
    {i \in 1..Len(u) : /\ OccursAt(u, p, i)
                       /\ i + Len(p) <= Len(u)
                       /\ Ch(u, i + Len(p)) \in Digits}

\* r is the run of digits that follows the leftmost match of p in u
IsIdOf(r, u, p) ==
    LET i == Min(PatternAt(u, p)) + Len(p)
    IN  /\ Len(r) >= 1
        /\ i + Len(r) - 1 <= Len(u)
        /\ SubSeq(u, i, i + Len(r) - 1) = r
        /\ \A j \in 1..Len(r) : Ch(r, j) \in Digits
        /\ i + Len(r) <= Len(u) => Ch(u, i + Len(r)) \notin Digits

\* C25: extractVideoId returns the digits after /video/ when that pattern
\* matches, else those after /note/ when that one matches, else those after
\* modal_id= when that one matches, wherever the matches sit, and null exactly
\* when none of the three matches.
C25_PatternPriority ==
    idPc = "returned" =>
        /\ PatternAt(idUrl, "/video/") # {} => IsIdOf(idResult, idUrl, "/video/")
        /\ (PatternAt(idUrl, "/video/") = {} /\ PatternAt(idUrl, "/note/") # {})
                => IsIdOf(idResult, idUrl, "/note/")
        /\ (/\ PatternAt(idUrl, "/video/") = {}
            /\ PatternAt(idUrl, "/note/") = {}
            /\ PatternAt(idUrl, "modal_id=") # {})
                => IsIdOf(idResult, idUrl, "modal_id=")
        /\ idResult = "" <=> \A p \in {"/video/", "/note/", "modal_id="} : PatternAt(idUrl, p) = {}

\* C25 witness: the URL matches all three patterns, the lowest priority first,
\* and the identifier after /video/ was returned
C25_Witness ==
    /\ idPc = "returned"
    /\ idUrl = "modal_id=3/note/12/video/7"
    /\ idResult = "7"

ParseAnswersOnce == sent <= 1 /\ (pc = "done" => sent = 1 /\ response.status # 0)

\* C27 as claimed: each handler that has nothing left to run has sent exactly
\* one response: the parse handler one JSON answer, the proxy handler either
\* one JSON error or one complete relayed response, and an error status is
\* never written into a response whose headers are out.
C27_ExactlyOneResponse ==
    /\ ParseAnswersOnce
    /\ proxyPc \in {"done", "broken"} => headersSent /\ resEnded
    /\ resStatus \in {400, 500} => bytesOut = 0

\* C28: the fallback request goes to the input URL whatever URL the manual loop
\* has reached, and a fallback that learns no other URL gives the input URL as
\* the final URL.
C28_FallbackFromInput ==
    /\ [](/\ fallbackReqs = 0 => fallbackUrl = ""
          /\ fallbackReqs = 1 => fallbackUrl = targetUrl)
    /\ [][\A r \in FallbackOutcomes :
            (FallbackResponse(r) /\ r.respUrl = "" /\ r.location = "")
                => finalUrl' = targetUrl]_allVars

\* C28 witness: the manual loop had moved to another URL when it failed, and the
\* fallback, which learned no URL, gave the input back as the final URL
C28_Witness ==
    /\ exit = "fallbackFault"
    /\ hops >= 2
    /\ currentUrl # targetUrl
    /\ fallbackUrl = targetUrl
    /\ finalUrl = targetUrl

\* the urls of a history list are pairwise different
DistinctUrls(h) == \A i, j \in 1..Len(h) : h[i].url = h[j].url => i = j

\* C29: after any sequence of saveToHistory and clearHistory the history has
\* at most 20 entries, no two entries have the same url, local storage holds
\* the list just computed or nothing after clearHistory, and a save puts the
\* saved record first.
C29_HistoryShape ==
    /\ [](/\ Len(history) <= HistoryLimit
          /\ DistinctUrls(history)
          /\ \/ stored = history
             \/ stored = Undef /\ history = <<>>)
    /\ [][\A r \in ClientOutcomes :
            (ClientResponse(r) /\ r.kind = "success") =>
                /\ history'[1] = DataOf(r)
                /\ stored' = history']_allVars
    /\ [][clearHistory => history' = <<>> /\ stored' = Undef]_allVars

\* the list is full, the oldest record dropped, and a record saved again has
\* moved from the end to the front with its new description
C29_Witness ==
    /\ Len(history) = HistoryLimit
    /\ fresh > HistoryLimit
    /\ history[1].desc = "b"
    /\ history[1].url < history[2].url
    /\ stored = history

\* error is shown when it is a non-empty string
ErrorSet == error # Null /\ Truthy(error)

\* C30: a handleParse run that started a request ends with loading = false and
\* exactly one of videoData and error set: videoData, also in the history, on
\* success = true, error otherwise and on a fault; a failed parse leaves the
\* history alone, and a blank input starts no request.
C30_ParseOutcome ==
    /\ [][\A r \in ClientOutcomes :
            ClientResponse(r) =>
                /\ loading' = FALSE
                /\ (videoData' # Null) # ErrorSet'
                /\ IF r.kind = "success"
                   THEN /\ videoData' = DataOf(r)
                        /\ \E i \in 1..Len(history') : history'[i] = DataOf(r)
                   ELSE /\ ErrorSet'
                        /\ history' = history
                        /\ stored' = stored]_allVars
    /\ [][IsBlank(inputUrl) => ~(~fetching /\ fetching')]_allVars
    /\ [][(~fetching /\ fetching') => loading']_allVars

\* a parse failed with a body that carried no message, after an earlier one
\* had succeeded
C30_Witness ==
    /\ ~loading
    /\ ~fetching
    /\ videoData = Null
    /\ error = Str("parse failed")
    /\ history # <<>>

====
